---- MODULE Spec2Model ----
(***************************************************************************)
(* Verification model of the vscode-docker debug-configuration provider    *)
(* (post-debug container cleanup) and of the task helpers' run-option      *)
(* resolution.                                                             *)
(***************************************************************************)
EXTENDS Integers, Sequences, FiniteSets, TLC

\* JavaScript `undefined` for optional string-valued properties.
Undefined == "<undefined>"

\* JavaScript truthiness of an optional string: undefined and '' are falsy.
Truthy(v) == v # Undefined /\ v # ""

\* a || b on optional strings
Or(a, b) == IF Truthy(a) THEN a ELSE b

(***************************************************************************)
(* Bounds of the model                                                     *)
(***************************************************************************)
MaxResolve == 1           \* resolutions per run of Spec
MaxEvents == 2            \* debug-session terminations per run of Spec
MaxResolveLifecycle == 2  \* the same for SpecLifecycle
MaxEventsLifecycle == 2
MaxRunCalls == 2          \* successive resolveDockerRunOptions calls on one record
MaxVolumes == 3           \* length of a volume list built by addVolumeWithoutConflicts
MaxUserVolumes == 2       \* volumes a user lists in a run task (SpecRunVolumes, SpecPython)
MaxUserPorts == 2         \* ports a user lists in a Python run task (SpecPython)
MaxKeyValues == 2         \* entries of the args / labels of a build task (SpecCommandLine)
MaxTaskResolutions == 3   \* build and run task resolutions sharing the task cache (SpecCache)
MaxConfigurationAdds == 3 \* addDebugConfiguration calls (SpecConfigurations)

VARIABLES
    resolutions,    \* calls of resolveDebugConfigurationInternal, in call order
    listeners,      \* per resolution, the listener it registered with
                    \* debug.onDidTerminateDebugSession (if any)
    removeCalls,    \* dockerClient.removeContainer invocations per container name
    nEvents,        \* debug-session-terminated events delivered so far
    subscriptions,  \* ctx.subscriptions of the extension
    deactivated,    \* the host has disposed ctx.subscriptions
    runOptions,     \* the DockerRunOptions record a run task is resolved on (mutated in place)
    helperOptions,  \* the task's NetCoreTaskOptions (mutated in place)
    workspace,      \* what the resolver reads from the workspace and the host
    taskCache,      \* TaskCache: per project file, what earlier resolutions stored
    runPrev,        \* runOptions as it was before the last resolveDockerRunOptions call
    runCalls,       \* number of resolveDockerRunOptions calls made on runOptions
    runStatus,      \* how the last call ended: "none", "returned" or "threw"
    runReads,       \* the file-system calls the last call's inferSsl and inferUserSecrets made
    volumes,        \* a DockerContainerVolume[] built with addVolumeWithoutConflicts
    lastAdd,        \* the last addVolumeWithoutConflicts call: list before, argument, result
    buildTask,      \* the docker-build task handed to DockerBuildTaskProvider.resolveTask
    buildResult,    \* what resolveTaskInternal did with it: helpers invoked, command line, task
    pythonRun,      \* the dockerRun options of a Python docker-run task (mutated in place)
    pythonPrev,     \* pythonRun as the user wrote it, before PythonTaskHelper resolved it
    launch,         \* a .NET Core docker debug configuration, its folder and the files it refers to
    launchResult,   \* what resolveDockerDebugConfiguration did with it
    taskLog,        \* the netCore build and run tasks resolved so far: project, tag / image
                    \* given and resolved
    launchConfigurations, \* 'configurations' of the workspace's launch settings
    configAdd,      \* the last addDebugConfiguration call: list before, argument, result
    readyInput,     \* arguments of a resolveDockerServerReadyAction call
    readyResult,    \* how that call ended and what it returned
    treeTimers,     \* a tree root's refresh timers: those active, intervalId, number created
    treeItems,      \* its _currentItems, _itemsFromPolling and _failedToConnect
    treePending,    \* its polls and loads awaiting getSortedItems
    treeLog,        \* the last poll and the last load that completed, refreshes requested
    registry        \* an Azure subscription node: _nextLink, the pages loaded, the last load

debugVars == <<resolutions, listeners, removeCalls, nEvents, subscriptions, deactivated>>

runVars == <<runOptions, helperOptions, workspace, taskCache, runPrev, runCalls, runStatus,
             runReads>>

volumeVars == <<volumes, lastAdd>>

buildVars == <<buildTask, buildResult>>

pythonVars == <<pythonRun, pythonPrev>>

launchVars == <<launch, launchResult>>

cacheVars == <<taskLog>>

configVars == <<launchConfigurations, configAdd>>

readyVars == <<readyInput, readyResult>>

treeVars == <<treeTimers, treeItems, treePending, treeLog>>

registryVars == <<registry>>

extraVars == <<cacheVars, configVars, readyVars, treeVars, registryVars>>

resolverVars == <<buildVars, pythonVars, launchVars, extraVars>>

vars == <<debugVars, runVars, volumeVars, resolverVars>>

\* the variables of the debug provider and of the task and debug resolvers
taskVars == <<debugVars, runVars, volumeVars, buildVars, pythonVars, launchVars>>

(***************************************************************************)
(* Debugging: DockerDebugConfigurationProvider                             *)
(***************************************************************************)
ContainerNames == {"c1", "c2"}

DockerPlatforms == {"netCore", "node", "python"}

\* ResolvedDebugConfigurationOptions; present = FALSE is `dockerOptions: undefined`
NoDockerOptions ==
    [present |-> FALSE, containerNameToKill |-> Undefined, removeContainerAfterDebug |-> Undefined]

DockerOptionsValues ==
    {NoDockerOptions} \cup
    [present : {TRUE},
     containerNameToKill : {Undefined, ""} \cup ContainerNames,
     removeContainerAfterDebug : {Undefined, "true", "false"}]

\* What a DebugHelper.resolveDebugConfiguration call yields: undefined
\* (returned = FALSE) or a ResolvedDebugConfiguration.
HelperReturnsUndefined ==
    [returned |-> FALSE, type |-> Undefined, request |-> Undefined, dockerOptions |-> NoDockerOptions]

ResolvedConfiguration(type, request, options) ==
    [returned |-> TRUE, type |-> type, request |-> request, dockerOptions |-> options]

\* The (platform, helper result) pairs the provider is exercised with.
ResolveInputs ==
    { <<"netCore", ResolvedConfiguration("coreclr", "launch", o)>> : o \in DockerOptionsValues }
    \cup { <<p, ResolvedConfiguration("docker", "attach",
                    [present |-> TRUE, containerNameToKill |-> "c1", removeContainerAfterDebug |-> Undefined])>>
           : p \in {"node", "python", "java"} }
    \cup { <<"netCore", ResolvedConfiguration(t, r, o)>> :
             t \in {Undefined, "coreclr"}, r \in {Undefined, "launch"},
             o \in {NoDockerOptions,
                    [present |-> TRUE, containerNameToKill |-> "c1", removeContainerAfterDebug |-> "true"]} }
    \cup { <<"netCore", HelperReturnsUndefined>> }

\* The inputs of the cleanup life cycle: resolutions that arm the cleanup of
\* one of two containers.
CleanupInputs ==
    { <<"netCore", ResolvedConfiguration("coreclr", "launch",
            [present |-> TRUE, containerNameToKill |-> n, removeContainerAfterDebug |-> Undefined])>>
      : n \in ContainerNames }

\* session.configuration of a terminated debug session
SessionConfigurations ==
    { [present |-> FALSE, containerNameToKill |-> Undefined] }
    \cup [present : {TRUE}, containerNameToKill : {Undefined} \cup ContainerNames]

\* (mutant) removeContainerAfterDebug is not consulted
ShouldRemoveContainerIgnoringOptOut(cfg) ==
    /\ cfg.dockerOptions.present
    /\ Truthy(cfg.dockerOptions.containerNameToKill)

\* (mutant) every session with dockerOptions is taken for the listener's own
SessionMatchesAnyDockerSession(session, name) == session.present

\* (mutant) a platform without a helper is served by the netCore helper
getHelperFallingBackToNetCore(platform) ==
    IF platform \in DockerPlatforms THEN platform ELSE "netCore"

\* getHelper: this.helpers[platform], an Error when there is none
getHelper(platform) == IF platform \in DockerPlatforms THEN platform ELSE "Error"

\* (mutant) the resolved configuration is not validated
validateResolvedConfigurationSkipped(cfg) == TRUE

\* validateResolvedConfiguration: TRUE when it does not throw
validateResolvedConfiguration(cfg) == Truthy(cfg.type) /\ Truthy(cfg.request)

\* the condition of registerRemoveContainerAfterDebugging (lines 71-73)
ShouldRemoveContainer(cfg) ==
    /\ cfg.dockerOptions.present
    /\ (cfg.dockerOptions.removeContainerAfterDebug = Undefined
        \/ cfg.dockerOptions.removeContainerAfterDebug = "true")
    /\ Truthy(cfg.dockerOptions.containerNameToKill)

\* the condition of the termination listener (lines 83-85)
SessionMatches(session, name) ==
    session.present /\ session.containerNameToKill = name

\* No listener registered (yet) by a resolution.
NoListener ==
    [registered |-> FALSE, name |-> Undefined, active |-> FALSE,
     seen |-> 0, invoked |-> 0, pending |-> 0, outcomes |-> {}]

\* A listener as registered at line 79: `disposable` is live. seen is the
\* number of termination events the host has called it with, invoked the number
\* of removeContainer calls it made, pending those not yet settled.
NewListener(name) ==
    [registered |-> TRUE, name |-> name, active |-> TRUE,
     seen |-> 0, invoked |-> 0, pending |-> 0, outcomes |-> {}]

\* The listener body up to its await (lines 80-90) for one delivered event.
\* A disposed listener is no longer called.
ListenerOnEvent(l, session) ==
    IF ~l.active THEN l
    ELSE IF SessionMatches(session, l.name)
    THEN [l EXCEPT !.seen = @ + 1, !.invoked = @ + 1, !.pending = @ + 1]
    ELSE [l EXCEPT !.seen = @ + 1]

\* (mutant) the catch block does not dispose
ListenerAfterRemovalKeptOnThrow(l, ok) ==
    [l EXCEPT !.pending = @ - 1,
              !.active = IF ok THEN FALSE ELSE @,
              !.outcomes = @ \cup {IF ok THEN "removed" ELSE "threw"}]

\* The listener body after removeContainer settled: dispose() at line 87 when
\* it resolved, dispose() in the catch block at line 92 when it threw.
ListenerAfterRemoval(l, ok) ==
    [l EXCEPT !.pending = @ - 1,
              !.active = FALSE,
              !.outcomes = @ \cup {IF ok THEN "removed" ELSE "threw"}]

\* registerRemoveContainerAfterDebugging after the awaited removal of a
\* pre-existing container settled (lines 74-79): the error is swallowed and the
\* listener registered either way; resolveDebugConfigurationInternal then
\* returns the resolved configuration (line 59).
ResolutionAfterPreRemove(r, ok) ==
    [r EXCEPT !.pc = "returned",
              !.pre = IF ok THEN "removed" ELSE "threw",
              !.result = "resolved"]

\* (mutant) the error of the pre-removal is not swallowed: nothing is registered
ListenerOnlyAfterSuccessfulPreRemove(r, ok) ==
    IF ok THEN [registered |-> TRUE, name |-> r.cfg.dockerOptions.containerNameToKill,
                active |-> TRUE, seen |-> 0, invoked |-> 0, pending |-> 0, outcomes |-> {}]
    ELSE [registered |-> FALSE, name |-> Undefined, active |-> FALSE,
          seen |-> 0, invoked |-> 0, pending |-> 0, outcomes |-> {}]

\* ... and the listener that call registers (line 79).
ListenerAfterPreRemove(r, ok) ==
    NewListener(r.cfg.dockerOptions.containerNameToKill)

(***************************************************************************)
(* Tasks: NetCoreTaskHelper (src/tasks/netcore/NetCoreTaskHelper.ts)       *)
(*                                                                         *)
(* A file path is the sequence of its segments; <<>> is an absent path.    *)
(***************************************************************************)

\* folder.uri.fsPath and folder.name of the workspace folder
WorkspaceFolderPath == <<"/ws">>

WorkspaceFolderName == "myapp"

\* getValidImageName(nameHint, tag)
getValidImageName(nameHint, tag) ==
    IF Truthy(tag) THEN nameHint \o ":" \o tag ELSE nameHint

\* the project files of the workspace, as absolute paths
WebProject == <<"/ws", "web", "Web App.csproj">>
ApiProject == <<"/ws", "api", "Api.fsproj">>
MyAppProject == <<"/ws", "MyApp.csproj">>
Projects == {WebProject, ApiProject, MyAppProject}

\* resolveWorkspaceFolderPath: every ${workspaceFolder} becomes the folder's path
resolveWorkspaceFolderPath(folder, folderPath) ==
    [i \in DOMAIN folderPath |->
        IF folderPath[i] = "${workspaceFolder}" THEN folder[1] ELSE folderPath[i]]

\* path.dirname
dirname(p) == SubSeq(p, 1, Len(p) - 1)

\* inferAppName: path.parse(appProject).name.replace(/\s/i, '').toLowerCase()
inferAppName(appProject) ==
    LET base == appProject[Len(appProject)]
    IN  CASE base = "Web App.csproj" -> "webapp"
          [] base = "Api.fsproj" -> "api"
          [] base = "MyApp.csproj" -> "myapp"
          [] OTHER -> base

\* inferAppProject: the user's appProject when set, else the picked project file
inferAppProject(folder, ho, ws) ==
    IF ho.appProject # <<>>
    THEN resolveWorkspaceFolderPath(folder, ho.appProject)
    ELSE ws.pickedProject

\* String.prototype.toLowerCase on the tokens project files and URLs are made
\* of (what the i flag of a regular expression amounts to)
toLowerCase(t) ==
    CASE t = "UserSecretsId" -> "usersecretsid"
      [] t = "USERSECRETSID" -> "usersecretsid"
      [] t = "TargetFramework" -> "targetframework"
      [] t = "Project" -> "project"
      [] t = "HTTPS" -> "https"
      [] t = "Https" -> "https"
      [] OTHER -> t

\* Properties/launchSettings.json next to the project file: whether it exists,
\* how reading it as JSON ends, and its profiles in the order of
\* Object.values. An applicationUrl is the sequence of the schemes of its
\* ';'-separated URLs, <<>> when the property is absent or ''.
LaunchProfile(commandName, applicationUrl) ==
    [isNull |-> FALSE, commandName |-> commandName, applicationUrl |-> applicationUrl]

NullProfile == [isNull |-> TRUE, commandName |-> Undefined, applicationUrl |-> <<>>]

LaunchSettingsFile(read, hasProfiles, profiles) ==
    [exists |-> TRUE, read |-> read, hasProfiles |-> hasProfiles, profiles |-> profiles]

LaunchSettingsMissing ==
    [exists |-> FALSE, read |-> "ENOENT", hasProfiles |-> FALSE, profiles |-> <<>>]

LaunchSettingsHttps ==
    LaunchSettingsFile("ok", TRUE, << LaunchProfile("IISExpress", <<>>),
                                      LaunchProfile("Project", <<"https", "http">>) >>)

\* /https:\/\//i.test(applicationUrl)
testHttps(applicationUrl) ==
    \E i \in DOMAIN applicationUrl : toLowerCase(applicationUrl[i]) = "https"

\* Object.values(profiles).find(p => p.commandName === 'Project'): the index
\* of the profile found (0 when none), or a TypeError when a null profile is
\* visited before one is found
findProjectProfile(profiles) ==
    LET projects == {i \in DOMAIN profiles :
                        ~profiles[i].isNull /\ profiles[i].commandName = "Project"}
        nulls == {i \in DOMAIN profiles : profiles[i].isNull}
        first == IF projects = {} THEN 0
                 ELSE CHOOSE i \in projects : \A j \in projects : i <= j
    IN  [threw |-> \E n \in nulls : first = 0 \/ n < first, index |-> first]

\* The try block of inferSsl (lines 129-146): "true" when it returns true,
\* "false" when it falls through, "threw" when a statement in it throws.
inferSslTry(ws) ==
    LET ls == ws.launchSettings
        found == findProjectProfile(ls.profiles)
    IN  IF ~ls.exists THEN "false"
        ELSE IF ls.read # "ok" THEN "threw"
        ELSE IF ~ls.hasProfiles THEN "false"
        ELSE IF found.threw THEN "threw"
        ELSE IF found.index # 0 /\ testHttps(ls.profiles[found.index].applicationUrl)
        THEN "true"
        ELSE "false"

\* (mutant) no catch around the inspection of launchSettings.json
inferSslUncaught(ws) == inferSslTry(ws)

\* inferSsl: how the call ends; `catch { }` and `return false` make it "false"
\* for whatever the try block threw
inferSsl(ws) == IF inferSslTry(ws) = "true" THEN "true" ELSE "false"

\* the file-system calls inferSsl makes: pathExists on launchSettings.json
\* and, when it exists, readJson
inferSslReads(ws) ==
    <<"pathExists(launchSettings)">>
        \o (IF ws.launchSettings.exists THEN <<"readJson(launchSettings)">> ELSE <<>>)

\* line 76: inferSsl is called only when configureSsl is undefined
sslReads(ho, ws) == IF ho.configureSsl # Undefined THEN <<>> ELSE inferSslReads(ws)

\* (mutant) the explicit configureSsl is not consulted
sslOutcomeAlwaysInferred(ho, ws) == inferSsl(ws)

\* line 76: the user's configureSsl when it is not undefined, else inferSsl
sslOutcome(ho, ws) ==
    IF ho.configureSsl # Undefined THEN ho.configureSsl ELSE inferSsl(ws)

\* (mutant) the test for UserSecretsId is case-sensitive
inferUserSecretsCaseSensitive(ws) ==
    \E i \in DOMAIN ws.projectContents : ws.projectContents[i] = "UserSecretsId"

\* inferUserSecrets: /UserSecretsId/i tested on the project file's contents
inferUserSecrets(ws) ==
    \E i \in DOMAIN ws.projectContents : toLowerCase(ws.projectContents[i]) = "usersecretsid"

\* fse.readFile(appProject) in inferUserSecrets rejects when the file is missing
inferUserSecretsThrows(ws) == ~ws.projectFileExists

\* optional objects: labels, env, volumes
\* { [key: string]: string } objects are the sequence of their entries in
\* Object.keys order
NoLabels == [defined |-> FALSE, entries |-> <<>>]
defaultLabels ==
    [defined |-> TRUE, entries |-> << <<"com.microsoft.created-by", "visual-studio-code">> >>]
NoEnv == [defined |-> FALSE, ASPNETCORE_ENVIRONMENT |-> Undefined, ASPNETCORE_URLS |-> Undefined]
EmptyEnv == [defined |-> TRUE, ASPNETCORE_ENVIRONMENT |-> Undefined, ASPNETCORE_URLS |-> Undefined]
NoVolumes == [defined |-> FALSE, items |-> <<>>]

Volume(localPath, containerPath, permissions) ==
    [localPath |-> localPath, containerPath |-> containerPath, permissions |-> permissions]

\* (mutant) conflicts detected by comparing whole volumes, not container paths
addVolumeWithoutConflictsComparingVolumes(vols, volume) ==
    IF \E i \in DOMAIN vols : vols[i] = volume
    THEN [volumes |-> vols, result |-> FALSE]
    ELSE [volumes |-> Append(vols, volume), result |-> TRUE]

\* addVolumeWithoutConflicts: the list after the call and the value returned
addVolumeWithoutConflicts(vols, volume) ==
    IF \E i \in DOMAIN vols : vols[i].containerPath = volume.containerPath
    THEN [volumes |-> vols, result |-> FALSE]
    ELSE [volumes |-> Append(vols, volume), result |-> TRUE]

\* a sequence of addVolumeWithoutConflicts calls on one list
RECURSIVE addVolumes(_, _)
addVolumes(vols, toAdd) ==
    IF toAdd = <<>> THEN vols
    ELSE addVolumes(addVolumeWithoutConflicts(vols, Head(toAdd)).volumes, Tail(toAdd))

\* LocalAspNetCoreSslManager.getHostSecretsFolders / getContainerSecretsFolders
getHostSecretsFolders ==
    [userSecretsFolder |-> <<"~", ".microsoft", "usersecrets">>,
     certificateFolder |-> <<"~", ".aspnet", "https">>]

getContainerSecretsFolders(os) ==
    IF os = "Windows"
    THEN [userSecretsFolder |-> "C:\\Users\\ContainerUser\\AppData\\Roaming\\Microsoft\\UserSecrets",
          certificateFolder |-> "C:\\Users\\ContainerUser\\AppData\\Roaming\\ASP.NET\\Https"]
    ELSE [userSecretsFolder |-> "/root/.microsoft/usersecrets",
          certificateFolder |-> "/root/.aspnet/https"]

\* inferVolumes throws when the host is Windows and ProgramFiles is not set
inferVolumesThrows(ws) == ws.platform = "win32" /\ ws.ProgramFiles = <<>>

\* The volumes inferVolumes adds after the user's, in the order of its
\* addVolumeWithoutConflicts calls (lines 169-237)
defaultVolumes(folder, ro, appProject, ws, ssl, userSecrets) ==
    LET win == ro.os = "Windows"
        appVolume == Volume(dirname(appProject), IF win THEN "C:\\app" ELSE "/app", "rw")
        srcVolume == Volume(folder, IF win THEN "C:\\src" ELSE "/src", "rw")
        debuggerVolume ==
            Volume(<<"~", ".vsdbg">>, IF win THEN "C:\\remote_debugger" ELSE "/remote_debugger", "ro")
        nugetVolume ==
            Volume(<<"~", ".nuget", "packages">>,
                   IF win THEN "C:\\.nuget\\packages" ELSE "/root/.nuget/packages", "ro")
        nugetFallbackVolume ==
            Volume(IF ws.platform = "win32"
                     THEN ws.ProgramFiles \o <<"dotnet", "sdk", "NuGetFallbackFolder">>
                   ELSE IF ws.platform = "darwin"
                     THEN <<"/usr", "local", "share", "dotnet", "sdk", "NuGetFallbackFolder">>
                   ELSE <<"/usr", "share", "dotnet", "sdk", "NuGetFallbackFolder">>,
                   IF win THEN "C:\\.nuget\\fallbackpackages" ELSE "/root/.nuget/fallbackpackages",
                   "ro")
        userSecretsVolume ==
            Volume(getHostSecretsFolders.userSecretsFolder,
                   getContainerSecretsFolders(ro.os).userSecretsFolder, "ro")
        certVolume ==
            Volume(getHostSecretsFolders.certificateFolder,
                   getContainerSecretsFolders(ro.os).certificateFolder, "ro")
        defaults == <<appVolume, srcVolume, debuggerVolume, nugetVolume, nugetFallbackVolume>>
        secrets == IF userSecrets \/ ssl
                   THEN <<userSecretsVolume>> \o (IF ssl THEN <<certVolume>> ELSE <<>>)
                   ELSE <<>>
    IN  defaults \o secrets

\* (mutant) the defaults are added before the user's volumes
inferVolumesDefaultsFirst(folder, ro, appProject, ws, ssl, userSecrets) ==
    LET user == IF ro.volumes.defined THEN ro.volumes.items ELSE <<>>
    IN  addVolumes(<<>>, defaultVolumes(folder, ro, appProject, ws, ssl, userSecrets) \o user)

\* inferVolumes: the user's volumes first, then the defaults, none overriding
\* an earlier mapping of the same container path
inferVolumes(folder, ro, appProject, ws, ssl, userSecrets) ==
    LET user == IF ro.volumes.defined THEN ro.volumes.items ELSE <<>>
    IN  addVolumes(<<>>, user \o defaultVolumes(folder, ro, appProject, ws, ssl, userSecrets))

\* lines 73-74: `x = x || os === 'Windows' ? a : b`; the conditional operator
\* binds weaker than ||, so the condition is (x || os === 'Windows')
entrypointOf(ro, os) == IF Truthy(ro.entrypoint) \/ os = "Windows" THEN "ping" ELSE "tail"

commandOf(ro, os) == IF Truthy(ro.command) \/ os = "Windows" THEN "-t localhost" ELSE "-f /dev/null"

\* (mutant) the task cache is not consulted for the image
imageOfIgnoringCache(ro, cached, appName) == Or(ro.image, appName \o ":dev")

\* line 71: runOptions.image || (cache && cache['image']) || `${appName}:dev`
imageOf(ro, cached, appName) == Or(ro.image, Or(cached.image, appName \o ":dev"))

\* NetCoreTaskHelper.resolveDockerRunOptions as a function of the record, the
\* helper options, the workspace and the cache entry: the record and helper
\* options it leaves (both are mutated in place, also when it throws), whether
\* it returned, and what it stores in the cache.
resolveDockerRunOptions(folder, ro, ho, ws, cache) ==
    LET appProject == inferAppProject(folder, ho, ws)
        cached == cache[appProject]
        appName == inferAppName(appProject)
        os == Or(ro.os, "Linux")
        r1 == [ro EXCEPT
                 !.containerName = Or(ro.containerName, appName \o "-dev"),
                 !.labels = IF ro.labels.defined THEN ro.labels ELSE defaultLabels,
                 !.os = os,
                 !.image = imageOf(ro, cached, appName),
                 !.entrypoint = entrypointOf(ro, os),
                 !.command = commandOf(ro, os)]
        sslResult == sslOutcome(ho, ws)
        ssl == sslResult = "true"
        userSecrets == IF ssl THEN TRUE ELSE inferUserSecrets(ws)
        env0 == IF r1.env.defined THEN r1.env ELSE EmptyEnv
        env1 == [env0 EXCEPT !.ASPNETCORE_ENVIRONMENT = Or(@, "Development")]
        env2 == IF ssl THEN [env1 EXCEPT !.ASPNETCORE_URLS = Or(@, "http://+:80;https://+:443")]
                ELSE env1
        r2 == IF userSecrets THEN [r1 EXCEPT !.env = env2] ELSE r1
        r3 == [r2 EXCEPT !.volumes =
                  [defined |-> TRUE,
                   items |-> inferVolumes(folder, r2, appProject, ws, ssl, userSecrets)]]
        ho1 == [ho EXCEPT !.appProject = appProject]
        reads == sslReads(ho, ws) \o (IF ssl THEN <<>> ELSE <<"readFile(appProject)">>)
    IN  IF sslResult = "threw"
        THEN [returned |-> FALSE, runOptions |-> r1, helperOptions |-> ho1,
              cache |-> cache, reads |-> sslReads(ho, ws)]
        ELSE IF ~ssl /\ inferUserSecretsThrows(ws)
        THEN [returned |-> FALSE, runOptions |-> r1, helperOptions |-> ho1,
              cache |-> cache, reads |-> reads]
        ELSE IF inferVolumesThrows(ws)
        THEN [returned |-> FALSE, runOptions |-> r2, helperOptions |-> ho1,
              cache |-> cache, reads |-> reads]
        ELSE [returned |-> TRUE, runOptions |-> r3, helperOptions |-> ho1, reads |-> reads,
              cache |-> [cache EXCEPT ![appProject] =
                            [@ EXCEPT !.configureSsl = IF ssl THEN "true" ELSE "false",
                                      !.containerName = r3.containerName,
                                      !.os = r3.os]]]

\* --- the inputs the run resolver is exercised with ---

NoCacheEntry ==
    [image |-> Undefined, configureSsl |-> Undefined, containerName |-> Undefined, os |-> Undefined]

UserVolumeLists ==
    { NoVolumes,
      [defined |-> TRUE, items |-> << Volume(<<"/data">>, "/data", "rw") >>],
      [defined |-> TRUE, items |-> << Volume(<<"/myapp">>, "/app", "ro"),
                                      Volume(<<"/other">>, "/app", "rw") >>] }

RunOptionsInputs ==
    { [containerName |-> u[1], labels |-> u[2], image |-> u[3],
       os |-> os, entrypoint |-> e, command |-> c, env |-> env, volumes |-> v] :
        u \in { <<Undefined, NoLabels, Undefined>>,
                <<"mycontainer", [defined |-> TRUE, entries |-> << <<"team", "web">> >>], "custom:1">> },
        os \in {Undefined, "Linux", "Windows"},
        e \in {Undefined, "dotnet"},
        c \in {Undefined, "run"},
        env \in {NoEnv, [EmptyEnv EXCEPT !.ASPNETCORE_ENVIRONMENT = "Staging"]},
        v \in UserVolumeLists }

HelperOptionsInputs ==
    [appProject : { <<>>, <<"${workspaceFolder}", "web", "Web App.csproj">>, ApiProject },
     configureSsl : {Undefined, "true", "false"}]

WorkspaceInputs ==
    { [pickedProject |-> WebProject, launchSettings |-> ls,
       projectFileExists |-> TRUE, projectContents |-> pc,
       platform |-> h[1], ProgramFiles |-> h[2]] :
        ls \in {LaunchSettingsMissing, LaunchSettingsHttps},
        pc \in { <<"Project", "TargetFramework">>, <<"Project", "UserSecretsId">>,
                 <<"Project", "USERSECRETSID">> },
        h \in { <<"linux", <<>>>>, <<"darwin", <<>>>>,
                <<"win32", <<"C:", "Program Files">>>>, <<"win32", <<>>>> } }

TaskCacheInputs ==
    { [p \in Projects |-> [NoCacheEntry EXCEPT !.image = img]] : img \in {Undefined, "cached:1"} }

\* --- no run task being resolved / no volume list being built ---

NoRunOptions ==
    [containerName |-> Undefined, labels |-> NoLabels, image |-> Undefined, os |-> Undefined,
     entrypoint |-> Undefined, command |-> Undefined, env |-> NoEnv, volumes |-> NoVolumes]

NoRunTask ==
    /\ runOptions = NoRunOptions
    /\ helperOptions = [appProject |-> <<>>, configureSsl |-> Undefined]
    /\ workspace = [pickedProject |-> WebProject, launchSettings |-> LaunchSettingsMissing,
                    projectFileExists |-> TRUE, projectContents |-> <<>>,
                    platform |-> "linux", ProgramFiles |-> <<>>]
    /\ taskCache = [p \in Projects |-> NoCacheEntry]
    /\ runPrev = NoRunOptions
    /\ runCalls = 0
    /\ runStatus = "none"
    /\ runReads = <<>>

NoAdd == [called |-> FALSE, before |-> <<>>, volume |-> Volume(<<>>, "", ""), result |-> FALSE]

NoVolumeList ==
    /\ volumes = <<>>
    /\ lastAdd = NoAdd

\* A run task as handed to the resolver: any of the inputs, nothing resolved yet.
InitRun ==
    /\ runOptions \in RunOptionsInputs
    /\ helperOptions \in HelperOptionsInputs
    /\ workspace \in WorkspaceInputs
    /\ taskCache \in TaskCacheInputs
    /\ runPrev = NoRunOptions
    /\ runCalls = 0
    /\ runStatus = "none"
    /\ runReads = <<>>

\* The volumes a user maps in a .NET Core run task: some of them on container
\* paths the resolver has defaults for, two of them on the same path.
UserVolumeChoices ==
    { Volume(<<"/data">>, "/data", "rw"),
      Volume(<<"/myapp">>, "/app", "ro"),
      Volume(<<"/other">>, "/app", "rw"),
      Volume(<<"/mysecrets">>, "/root/.microsoft/usersecrets", "rw"),
      Volume(<<"C:", "myapp">>, "C:\\app", "ro") }

\* A run task whose volume list is any list of at most MaxUserVolumes of them.
InitRunVolumes ==
    /\ runOptions \in
          { [NoRunOptions EXCEPT !.os = os, !.volumes = v] :
              os \in {Undefined, "Linux", "Windows"},
              v \in {NoVolumes} \cup
                    { [defined |-> TRUE, items |-> items] :
                        items \in UNION { [1..n -> UserVolumeChoices] : n \in 0..MaxUserVolumes } } }
    /\ helperOptions \in [appProject : {ApiProject}, configureSsl : {Undefined, "true", "false"}]
    /\ workspace \in
          { [pickedProject |-> WebProject, launchSettings |-> ls,
             projectFileExists |-> TRUE, projectContents |-> pc,
             platform |-> h[1], ProgramFiles |-> h[2]] :
              ls \in {LaunchSettingsMissing, LaunchSettingsHttps},
              pc \in { <<"Project", "TargetFramework">>, <<"Project", "UserSecretsId">> },
              h \in { <<"linux", <<>>>>, <<"win32", <<"C:", "Program Files">>>> } }
    /\ taskCache = [p \in Projects |-> NoCacheEntry]
    /\ runPrev = NoRunOptions
    /\ runCalls = 0
    /\ runStatus = "none"
    /\ runReads = <<>>

\* what launchSettings.json can be: missing; unreadable; malformed; without
\* profiles; without a Project profile; with a null profile; with a Project
\* profile that has no applicationUrl, only an http URL, or an https URL
LaunchSettingsChoices ==
    { LaunchSettingsMissing,
      LaunchSettingsFile("EACCES", FALSE, <<>>),
      LaunchSettingsFile("SyntaxError", FALSE, <<>>),
      LaunchSettingsFile("ok", FALSE, <<>>),
      LaunchSettingsFile("ok", TRUE, << LaunchProfile("IISExpress", <<"https">>) >>),
      LaunchSettingsFile("ok", TRUE, << NullProfile, LaunchProfile("Project", <<"https">>) >>),
      LaunchSettingsFile("ok", TRUE, << LaunchProfile("Project", <<>>) >>),
      LaunchSettingsFile("ok", TRUE, << LaunchProfile("Project", <<"http">>) >>),
      LaunchSettingsHttps,
      LaunchSettingsFile("ok", TRUE, << LaunchProfile("Project", <<"HTTPS">>) >>) }

\* what the project file can hold: no UserSecretsId, or one in some letter case
ProjectContentsChoices ==
    { <<"Project", "TargetFramework">>, <<"Project", "UserSecretsId">>,
      <<"Project", "USERSECRETSID">>, <<"Project", "usersecretsid">> }

\* A run task whose SSL and user-secrets settings are to be inferred from
\* any of these files.
InitRunInfer ==
    /\ runOptions \in
          { [NoRunOptions EXCEPT !.os = os, !.env = env, !.volumes = v] :
              os \in {Undefined, "Windows"},
              env \in {NoEnv, [EmptyEnv EXCEPT !.ASPNETCORE_ENVIRONMENT = "Staging"]},
              v \in { NoVolumes,
                      [defined |-> TRUE,
                       items |-> << Volume(<<"/mysecrets">>, "/root/.microsoft/usersecrets", "rw") >>] } }
    /\ helperOptions \in [appProject : {ApiProject}, configureSsl : {Undefined, "true", "false"}]
    /\ workspace \in
          { [pickedProject |-> WebProject, launchSettings |-> ls,
             projectFileExists |-> pe, projectContents |-> pc,
             platform |-> h[1], ProgramFiles |-> h[2]] :
              ls \in LaunchSettingsChoices,
              pe \in BOOLEAN,
              pc \in ProjectContentsChoices,
              h \in { <<"linux", <<>>>>, <<"win32", <<"C:", "Program Files">>>> } }
    /\ taskCache = [p \in Projects |-> NoCacheEntry]
    /\ runPrev = NoRunOptions
    /\ runCalls = 0
    /\ runStatus = "none"
    /\ runReads = <<>>

\* One call of NetCoreTaskHelper.resolveDockerRunOptions on the task's record.
NetCoreResolveDockerRunOptions ==
    /\ runCalls < MaxRunCalls
    /\ LET out == resolveDockerRunOptions(WorkspaceFolderPath, runOptions, helperOptions,
                                          workspace, taskCache)
       IN  /\ runOptions' = out.runOptions
           /\ helperOptions' = out.helperOptions
           /\ taskCache' = out.cache
           /\ runStatus' = IF out.returned THEN "returned" ELSE "threw"
           /\ runReads' = out.reads
    /\ runPrev' = runOptions
    /\ runCalls' = runCalls + 1
    /\ UNCHANGED <<workspace, debugVars, volumeVars, resolverVars>>

\* The volumes addVolumeWithoutConflicts is called with.
VolumeInputs ==
    { Volume(l, c, p) : l \in {<<"/h1">>, <<"/h2">>}, c \in {"/app", "/src", "/data"},
                        p \in {"rw", "ro"} }

\* One call of addVolumeWithoutConflicts on the list.
AddVolume(volume) ==
    /\ LET out == addVolumeWithoutConflicts(volumes, volume)
       IN  /\ Len(out.volumes) <= MaxVolumes
           /\ volumes' = out.volumes
           /\ lastAdd' = [called |-> TRUE, before |-> volumes, volume |-> volume,
                          result |-> out.result]
    /\ UNCHANGED <<debugVars, runVars, resolverVars>>

(***************************************************************************)
(* Tasks: DockerBuildTaskProvider (src/tasks/DockerBuildTaskProvider.ts)   *)
(***************************************************************************)

\* DockerBuildOptions; defined = FALSE is `dockerBuild: undefined`
NoKeyValues == [defined |-> FALSE, entries |-> <<>>]

BuildOptions(args, context, dockerfile, labels, tag, target, pull) ==
    [defined |-> TRUE, args |-> args, context |-> context, dockerfile |-> dockerfile,
     labels |-> labels, tag |-> tag, target |-> target, pull |-> pull]

EmptyBuildOptions ==
    BuildOptions(NoKeyValues, Undefined, Undefined, NoKeyValues, Undefined, Undefined, Undefined)

NoBuildOptions == [EmptyBuildOptions EXCEPT !.defined = FALSE]

\* NetCoreTaskOptions / NodeTaskBuildOptions of a task definition
NoNetCoreOptions == [defined |-> FALSE, appProject |-> <<>>, configureSsl |-> Undefined]

\* DockerBuildTaskDefinition
BuildTaskDefinition(platform, netCore, node, dockerBuild) ==
    [platform |-> platform, netCore |-> netCore, node |-> node, dockerBuild |-> dockerBuild]

NoBuildTaskDefinition ==
    BuildTaskDefinition(Undefined, NoNetCoreOptions, [defined |-> FALSE], NoBuildOptions)

\* the Task that resolveTaskInternal constructs (lines 67-73)
NoTask ==
    [produced |-> FALSE, definition |-> NoBuildTaskDefinition, scope |-> Undefined,
     command |-> Undefined, args |-> <<>>]

\* resolveTaskInternal not called yet
NoBuildResult ==
    [status |-> "none", by |-> "none", error |-> Undefined, helpers |-> <<>>,
     originalDefinition |-> NoBuildTaskDefinition, commandLine |-> <<>>, task |-> NoTask]

NoBuildTask ==
    /\ buildTask = [scope |-> Undefined, definition |-> NoBuildTaskDefinition]
    /\ buildResult = NoBuildResult

\* CommandLineBuilder: the argument list after each of its calls
withArg(cl, arg) == Append(cl, arg)

withFlagArg(cl, name, value) == IF value = "true" THEN withArg(cl, name) ELSE cl

withQuotedArg(cl, value) == IF value # Undefined THEN withArg(cl, value) ELSE cl

withNamedArg(cl, name, value) ==
    IF value # Undefined THEN withQuotedArg(withArg(cl, name), value) ELSE cl

RECURSIVE withKeyValueEntries(_, _, _)
withKeyValueEntries(cl, name, entries) ==
    IF entries = <<>> THEN cl
    ELSE withKeyValueEntries(
            withArg(withArg(cl, name), Head(entries)[1] \o "=" \o Head(entries)[2]),
            name, Tail(entries))

withKeyValueArgs(cl, name, values) ==
    IF values.defined THEN withKeyValueEntries(cl, name, values.entries) ELSE cl

\* (mutant) -t is given the target and --target the tag
resolveCommandLineTagAndTargetSwapped(options) ==
    LET c1 == withFlagArg(<<"docker", "build", "--rm">>, "--pull", options.pull)
        c2 == withNamedArg(c1, "-f", options.dockerfile)
        c3 == withKeyValueArgs(c2, "--build-arg", options.args)
        c4 == withKeyValueArgs(c3, "--label", options.labels)
        c5 == withNamedArg(c4, "-t", options.target)
        c6 == withNamedArg(c5, "--target", options.tag)
    IN  withQuotedArg(c6, options.context)

\* (mutant) the tag is emitted before the labels
resolveCommandLineTagBeforeLabels(options) ==
    LET c1 == withFlagArg(<<"docker", "build", "--rm">>, "--pull", options.pull)
        c2 == withNamedArg(c1, "-f", options.dockerfile)
        c3 == withKeyValueArgs(c2, "--build-arg", options.args)
        c4 == withNamedArg(c3, "-t", options.tag)
        c5 == withKeyValueArgs(c4, "--label", options.labels)
        c6 == withNamedArg(c5, "--target", options.target)
    IN  withQuotedArg(c6, options.context)

\* resolveCommandLine: the values of the ShellQuotedString[] it builds
resolveCommandLine(options) ==
    LET c1 == withFlagArg(<<"docker", "build", "--rm">>, "--pull", options.pull)
        c2 == withNamedArg(c1, "-f", options.dockerfile)
        c3 == withKeyValueArgs(c2, "--build-arg", options.args)
        c4 == withKeyValueArgs(c3, "--label", options.labels)
        c5 == withNamedArg(c4, "-t", options.tag)
        c6 == withNamedArg(c5, "--target", options.target)
    IN  withQuotedArg(c6, options.context)

\* (mutant) the node options are looked at before the netCore options
helperForNodeFirst(definition) ==
    IF definition.platform = "node" \/ definition.node.defined THEN "node"
    ELSE IF definition.platform = "netCore" \/ definition.netCore.defined THEN "netCore"
    ELSE "Error"

\* the helper resolveTaskInternal hands the options to (lines 55-61)
helperFor(definition) ==
    IF definition.platform = "netCore" \/ definition.netCore.defined THEN "netCore"
    ELSE IF definition.platform = "node" \/ definition.node.defined THEN "node"
    ELSE "Error"

\* NetCoreTaskHelper.resolveDockerBuildOptions (NetCoreTaskHelper.ts 40-57):
\* the options it returns, the appProject it leaves in the helper options and
\* the cache after TaskCache.set
resolveDockerBuildOptions(folder, bo, ho, ws, cache) ==
    LET appProject == inferAppProject(folder, ho, ws)
        appName == inferAppName(appProject)
        tag == Or(bo.tag, appName \o ":dev")
    IN  [buildOptions |->
            [bo EXCEPT !.context = Or(@, "${workspaceFolder}"),
                       !.dockerfile = Or(@, "${workspaceFolder}/Dockerfile"),
                       !.tag = tag,
                       !.target = Or(@, "base"),
                       !.labels = IF @.defined THEN @ ELSE defaultLabels],
         helperOptions |-> IF ho.defined THEN [ho EXCEPT !.appProject = appProject] ELSE ho,
         cache |-> [cache EXCEPT ![appProject] = [NoCacheEntry EXCEPT !.image = tag]]]

\* getDefaultImageName(nameHint, tag): the tag defaults to 'latest'
getDefaultImageName(nameHint, tag) ==
    getValidImageName(nameHint, Undefined) \o ":" \o Or(tag, "latest")

\* NodeTaskHelper.resolveDockerBuildOptions
nodeResolveDockerBuildOptions(folderName, bo) ==
    [bo EXCEPT !.context = Or(@, "${workspaceFolder}"),
               !.dockerfile = Or(@, "${workspaceFolder}/Dockerfile"),
               !.tag = Or(@, getDefaultImageName(folderName, Undefined)),
               !.labels = IF @.defined THEN @ ELSE defaultLabels]

\* NetCoreTaskHelper.resolveDockerBuildOptions of part_003 (lines 100-111),
\* which works on the task definition
resolveDockerBuildOptionsOfDefinition(folderName, bo) ==
    [bo EXCEPT !.context = Or(@, "${workspaceFolder}"),
               !.dockerfile = Or(@, "${workspaceFolder}/Dockerfile"),
               !.tag = Or(@, getDefaultImageName(folderName, Undefined)),
               !.labels = IF @.defined THEN @ ELSE defaultLabels]

\* resolveTaskInternal: the task definition it leaves (mutated in place), its
\* result and the task cache
resolveTaskInternal(task, ws, cache) ==
    LET def == task.definition
        bo == IF def.dockerBuild.defined THEN def.dockerBuild ELSE EmptyBuildOptions
        def1 == [def EXCEPT !.dockerBuild = bo]
        r0 == [NoBuildResult EXCEPT !.by = "resolveTaskInternal", !.originalDefinition = def]
        threw(message) ==
            [task |-> [task EXCEPT !.definition = def1],
             result |-> [r0 EXCEPT !.status = "threw", !.error = message],
             cache |-> cache]
        resolved(helper, options, netCore, newCache) ==
            LET commandLine == resolveCommandLine(options)
            IN  [task |-> [task EXCEPT !.definition =
                              [def1 EXCEPT !.dockerBuild = options, !.netCore = netCore]],
                 result |-> [r0 EXCEPT
                               !.status = "resolved",
                               !.helpers = <<helper>>,
                               !.commandLine = commandLine,
                               !.task = [produced |-> TRUE, definition |-> def,
                                         scope |-> task.scope,
                                         command |-> Head(commandLine),
                                         args |-> Tail(commandLine)]],
                 cache |-> newCache]
    IN  IF task.scope = Undefined
        THEN threw("Unable to determine task scope to execute docker-build task")
        ELSE IF helperFor(def) = "netCore"
        THEN LET out == resolveDockerBuildOptions(WorkspaceFolderPath, bo, def.netCore, ws, cache)
             IN  resolved("netCore", out.buildOptions, out.helperOptions, out.cache)
        ELSE IF helperFor(def) = "node"
        THEN resolved("node", nodeResolveDockerBuildOptions(task.scope, bo), def.netCore, cache)
        ELSE threw("Unrecognized platform")

\* the docker-build tasks the provider is asked to resolve
BuildTaskInputs ==
    { [scope |-> sc, definition |-> BuildTaskDefinition(pf, nc, [defined |-> nd], db)] :
        sc \in {Undefined, WorkspaceFolderName},
        pf \in {Undefined, "netCore", "node", "python"},
        nc \in { NoNetCoreOptions,
                 [defined |-> TRUE, appProject |-> <<>>, configureSsl |-> Undefined],
                 [defined |-> TRUE, appProject |-> <<"${workspaceFolder}", "MyApp.csproj">>,
                  configureSsl |-> Undefined] },
        nd \in BOOLEAN,
        db \in {NoBuildOptions} \cup
               { BuildOptions(NoKeyValues, Undefined, Undefined, l, t, g, Undefined) :
                   l \in { NoKeyValues, [defined |-> TRUE, entries |-> << <<"team", "web">> >>] },
                   t \in {Undefined, "custom:1"},
                   g \in {Undefined, "base", "final"} } }

\* A docker-build task as handed to the provider, in the workspace folder
\* 'myapp' whose project file is MyApp.csproj.
InitBuild ==
    /\ buildTask \in BuildTaskInputs
    /\ buildResult = NoBuildResult
    /\ runOptions = NoRunOptions
    /\ helperOptions = [appProject |-> <<>>, configureSsl |-> Undefined]
    /\ workspace \in
          { [pickedProject |-> pp, launchSettings |-> LaunchSettingsMissing,
             projectFileExists |-> TRUE, projectContents |-> <<>>,
             platform |-> "linux", ProgramFiles |-> <<>>] : pp \in {MyAppProject} }
    /\ taskCache = [p \in Projects |-> NoCacheEntry]
    /\ runPrev = NoRunOptions
    /\ runCalls = 0
    /\ runStatus = "none"
    /\ runReads = <<>>

\* DockerBuildTaskProvider.resolveTask on the task
resolveTask ==
    /\ buildResult.status = "none"
    /\ LET out == resolveTaskInternal(buildTask, workspace, taskCache)
       IN  /\ buildTask' = out.task
           /\ buildResult' = out.result
           /\ taskCache' = out.cache
    /\ UNCHANGED <<runOptions, helperOptions, workspace, runPrev, runCalls, runStatus, runReads>>
    /\ UNCHANGED <<debugVars, volumeVars, pythonVars, launchVars, extraVars>>

\* NetCoreTaskHelper.resolveDockerBuildOptions of part_003 on the definition of
\* a netCore task in a workspace folder
NetCoreResolveDockerBuildOptions ==
    /\ buildResult.status = "none"
    /\ buildTask.scope # Undefined
    /\ buildTask.definition.netCore.defined
    /\ buildTask.definition.dockerBuild.defined
    /\ buildTask' =
          [buildTask EXCEPT !.definition.dockerBuild =
              resolveDockerBuildOptionsOfDefinition(buildTask.scope, @)]
    /\ buildResult' =
          [NoBuildResult EXCEPT !.status = "resolved", !.by = "resolveDockerBuildOptions",
                                !.helpers = <<"netCore">>,
                                !.originalDefinition = buildTask.definition]
    /\ UNCHANGED <<debugVars, runVars, volumeVars, pythonVars, launchVars, extraVars>>

\* the args / labels objects a build task is given: up to MaxKeyValues entries
\* with different keys
KeyValueChoices == { <<"k1", "v1">>, <<"k2", "v2">>, <<"k3", "v1">> }

KeyValuesInputs ==
    {NoKeyValues} \cup
    { [defined |-> TRUE, entries |-> e] :
        e \in { f \in UNION { [1..n -> KeyValueChoices] : n \in 0..MaxKeyValues } :
                  \A i, j \in DOMAIN f : i # j => f[i][1] # f[j][1] } }

\* the option records resolveCommandLine is applied to
BuildOptionsInputs ==
    { BuildOptions(a, c, f, l, t, g, p) :
        a \in KeyValuesInputs, c \in {Undefined, "."}, f \in {Undefined, "Dockerfile"},
        l \in KeyValuesInputs, t \in {Undefined, "myapp:1"}, g \in {Undefined, "base"},
        p \in {Undefined, "true", "false"} }

\* A build task whose options are any of them.
InitCommandLine ==
    /\ buildTask \in
          { [scope |-> WorkspaceFolderName,
             definition |-> [NoBuildTaskDefinition EXCEPT !.dockerBuild = o]] :
              o \in BuildOptionsInputs }
    /\ buildResult = NoBuildResult

\* resolveCommandLine applied to the task's options
ResolveCommandLine ==
    /\ buildResult.status = "none"
    /\ buildResult' =
          [buildResult EXCEPT !.status = "commandLine",
                              !.commandLine = resolveCommandLine(buildTask.definition.dockerBuild)]
    /\ UNCHANGED <<buildTask, debugVars, runVars, volumeVars, pythonVars, launchVars, extraVars>>

(***************************************************************************)
(* Tasks: PythonTaskHelper (src/tasks/python/PythonTaskHelper.ts)          *)
(***************************************************************************)

\* DockerRunOptions of a Python task; a list that is not defined is
\* `undefined` in the task definition
NoList == [defined |-> FALSE, items |-> <<>>]

NoPythonRunOptions ==
    [resolved |-> FALSE, image |-> Undefined, containerName |-> Undefined,
     volumes |-> NoList, ports |-> NoList, entrypoint |-> <<>>, command |-> <<>>]

NoPythonTask ==
    /\ pythonRun = NoPythonRunOptions
    /\ pythonPrev = NoPythonRunOptions

\* DockerContainerPort
Port(containerPort, hostPort) == [containerPort |-> containerPort, hostPort |-> hostPort]

\* addPortWithoutConflicts: the port list after the call
addPortWithoutConflicts(ports, port) ==
    IF \E i \in DOMAIN ports : ports[i].containerPort = port.containerPort
    THEN ports
    ELSE Append(ports, port)

RECURSIVE addPorts(_, _)
addPorts(ports, toAdd) ==
    IF toAdd = <<>> THEN ports
    ELSE addPorts(addPortWithoutConflicts(ports, Head(toAdd)), Tail(toAdd))

\* pyExtension.getLauncherFolderPath() and the parts (split at whitespace) of
\* pyExtension.getRemoteLauncherCommand(...); a part is a path
LauncherFolder == <<"~", ".vscode", "extensions", "ms-python", "pythonFiles">>

LauncherCommand ==
    << <<"python">>, LauncherFolder \o <<"ptvsd_launcher.py">>, <<"--default">>,
       <<"--host">>, <<"0.0.0.0">>, <<"--port">>, <<"5678">>, <<"--wait">>, <<"app.py">> >>

\* PythonTaskHelper.inferVolumes: the user's volumes, then the debugger volume
pythonInferVolumes(ro, launcherFolder) ==
    LET user == IF ro.volumes.defined THEN ro.volumes.items ELSE <<>>
        dbgVolume == Volume(launcherFolder, "/pydbg", "ro")
    IN  addVolumes(<<>>, user \o <<dbgVolume>>)

\* (mutant) the debugger port is added before the user's ports
pythonInferPortsDebuggerFirst(ro) ==
    LET user == IF ro.ports.defined THEN ro.ports.items ELSE <<>>
    IN  addPorts(<<>>, <<Port(5678, 5678)>> \o user)

\* PythonTaskHelper.inferPorts: the user's ports, then the debugger port
pythonInferPorts(ro) ==
    LET user == IF ro.ports.defined THEN ro.ports.items ELSE <<>>
        dbgPort == Port(5678, 5678)
    IN  addPorts(<<>>, user \o <<dbgPort>>)

\* inferEntrypoint: the first part of the launcher command
inferEntrypoint(launcherCommand) == launcherCommand[1]

\* inferCommand: the other parts, the launcher folder replaced by /pydbg
inferCommand(launcherCommand, launcherFolder) ==
    LET n == Len(launcherFolder)
        mapped(part) ==
            IF Len(part) >= n /\ SubSeq(part, 1, n) = launcherFolder
            THEN <<"/pydbg">> \o SubSeq(part, n + 1, Len(part))
            ELSE part
    IN  [i \in 1..(Len(launcherCommand) - 1) |-> mapped(launcherCommand[i + 1])]

\* PythonTaskHelper.resolveDockerRunOptions: the record it returns (the task
\* has no build definition to take the image from)
pythonResolveDockerRunOptions(ro) ==
    [resolved |-> TRUE,
     image |-> Or(ro.image, getValidImageName(WorkspaceFolderName, Undefined)),
     containerName |->
         Or(ro.containerName, getValidImageName(WorkspaceFolderName, Undefined) \o "-" \o "dev"),
     volumes |-> [defined |-> TRUE, items |-> pythonInferVolumes(ro, LauncherFolder)],
     ports |-> [defined |-> TRUE, items |-> pythonInferPorts(ro)],
     entrypoint |-> inferEntrypoint(LauncherCommand),
     command |-> inferCommand(LauncherCommand, LauncherFolder)]

\* the ports and volumes a user lists in a Python run task
UserPortChoices == { Port(80, 8080), Port(80, 8081), Port(5678, 15678), Port(5678, 25678) }

PythonVolumeChoices ==
    { Volume(<<"/data">>, "/data", "rw"), Volume(<<"/data2">>, "/data", "ro"),
      Volume(<<"/mydbg">>, "/pydbg", "rw"), Volume(<<"/mydbg2">>, "/pydbg", "ro") }

ListsOf(choices, maxLen) ==
    {NoList} \cup
    { [defined |-> TRUE, items |-> items] :
        items \in UNION { [1..n -> choices] : n \in 0..maxLen } }

\* A Python run task as the user wrote it.
InitPython ==
    /\ pythonRun \in
          { [NoPythonRunOptions EXCEPT !.image = u[1], !.containerName = u[2],
                                       !.entrypoint = u[3], !.volumes = v, !.ports = p] :
              u \in { <<Undefined, Undefined, <<>>>>, <<"custom:1", "mycontainer", <<"sh">>>> },
              v \in ListsOf(PythonVolumeChoices, MaxUserVolumes),
              p \in ListsOf(UserPortChoices, MaxUserPorts) }
    /\ pythonPrev = NoPythonRunOptions

\* One call of PythonTaskHelper.resolveDockerRunOptions on the task's record.
PythonResolveDockerRunOptions ==
    /\ ~pythonRun.resolved
    /\ pythonPrev' = pythonRun
    /\ pythonRun' = pythonResolveDockerRunOptions(pythonRun)
    /\ UNCHANGED <<debugVars, runVars, volumeVars, buildVars, launchVars, extraVars>>

(***************************************************************************)
(* Debugging: DockerNetCoreDebugConfigurationProvider                      *)
(* (src/debugging/coreclr/dockerNetCoreDebugConfigurationProvider.ts)      *)
(***************************************************************************)

\* resolveDockerDebugConfiguration not called yet
NoLaunchResult ==
    [status |-> "none", error |-> Undefined, calls |-> <<>>,
     appFolder |-> <<>>, appProject |-> <<>>, context |-> <<>>, dockerfile |-> <<>>,
     ssl |-> Undefined, userSecrets |-> Undefined, env |-> NoEnv]

\* the directories a debug configuration can refer to
LaunchDirs == { <<"/ws">>, <<"/ws", "web">>, <<"/ws", "api">>, <<"/ws", "missing">> }

\* A DockerDebugConfiguration with the workspace folder it is resolved in
\* (folder = FALSE: none) and what the providers it reads from answer: the
\* existing directories and the names readDir lists in each, launchSettings.json
\* and the project file's contents, the prerequisite's verdict and whether
\* dockerManager.prepareForLaunch resolves. An unset path property is <<>>.
NoLaunchConfiguration ==
    [folder |-> FALSE, appFolder |-> <<>>, appProject |-> <<>>, context |-> <<>>,
     dockerfile |-> <<>>, configureAspNetCoreSsl |-> Undefined, env |-> NoEnv,
     dirs |-> {}, listing |-> [d \in LaunchDirs |-> <<>>],
     launchSettings |-> LaunchSettingsMissing,
     projectContents |-> <<>>, prerequisiteSatisfied |-> TRUE,
     prepareForLaunchSucceeds |-> TRUE]

NoLaunch ==
    /\ launch = NoLaunchConfiguration
    /\ launchResult = NoLaunchResult

\* resolveFilePath(path, folder)
resolveFilePath(filePath, folder) == resolveWorkspaceFolderPath(folder, filePath)

\* fsProvider.dirExists / fileExists / readDir
dirExists(l, dir) == dir \in l.dirs

fileExists(l, file) ==
    /\ Len(file) > 1
    /\ dirname(file) \in l.dirs
    /\ \E i \in DOMAIN l.listing[dirname(file)] :
          l.listing[dirname(file)][i] = file[Len(file)]

readDir(l, dir) == l.listing[dir]

\* path.extname on the file names of the workspace
extname(file) ==
    CASE file \in {"Web App.csproj", "MyApp.csproj"} -> ".csproj"
      [] file \in {"Api.fsproj", "Other.fsproj"} -> ".fsproj"
      [] file = "README.md" -> ".md"
      [] OTHER -> ""

\* the messages of the errors resolveDockerDebugConfiguration throws (the
\* quoted path left out)
NoFolderError == "No workspace folder is associated with debugging."

AppFolderError ==
    "The application folder does not exist. Ensure that the 'appFolder' or 'appProject' property is set correctly in the Docker debug configuration."

NoAppProjectError ==
    "Unable to infer the application project file. Set either the 'appFolder' or 'appProject' property in the Docker debug configuration."

AppProjectError ==
    "The application project file does not exist. Ensure that the 'appFolder' or 'appProject' property is set correctly in the Docker debug configuration."

ContextError ==
    "The context folder does not exist. Ensure that the 'context' property is set correctly in the Docker debug configuration."

DockerfileError ==
    "The Dockerfile does not exist. Ensure that the 'dockerfile' property is set correctly in the Docker debug configuration."

\* (mutant) the directory of appProject is preferred to appFolder
launchInferAppFolderProjectFirst(l) ==
    LET appFolder == IF l.appProject # <<>> THEN dirname(l.appProject)
                     ELSE IF l.appFolder # <<>> THEN l.appFolder
                     ELSE WorkspaceFolderPath
        resolved == resolveFilePath(appFolder, WorkspaceFolderPath)
    IN  [appFolder |-> appFolder, resolvedAppFolder |-> resolved,
         threw |-> ~dirExists(l, resolved)]

\* inferAppFolder (lines 197-222)
launchInferAppFolder(l) ==
    LET appFolder == IF l.appFolder # <<>> THEN l.appFolder
                     ELSE IF l.appProject # <<>> THEN dirname(l.appProject)
                     ELSE WorkspaceFolderPath
        resolved == resolveFilePath(appFolder, WorkspaceFolderPath)
    IN  [appFolder |-> appFolder, resolvedAppFolder |-> resolved,
         threw |-> ~dirExists(l, resolved)]

\* files.find(file => ['.csproj', '.fsproj'].includes(path.extname(file))):
\* the index of the file found, 0 when there is none
findProjectFile(files) ==
    LET projects == { i \in DOMAIN files : extname(files[i]) \in {".csproj", ".fsproj"} }
    IN  IF projects = {} THEN 0 ELSE CHOOSE i \in projects : \A j \in projects : i <= j

\* inferAppProject (lines 235-266): whether readDir was called, the project
\* file and the error thrown (Undefined when none)
launchInferAppProject(l, resolvedAppFolder) ==
    LET scanned == l.appProject = <<>>
        files == readDir(l, resolvedAppFolder)
        found == findProjectFile(files)
        appProject == IF ~scanned THEN l.appProject
                      ELSE IF found # 0 THEN Append(resolvedAppFolder, files[found])
                      ELSE <<>>
        resolved == resolveFilePath(appProject, WorkspaceFolderPath)
    IN  [scanned |-> scanned, appProject |-> appProject, resolvedAppProject |-> resolved,
         checked |-> appProject # <<>>,
         error |-> IF appProject = <<>> THEN NoAppProjectError
                   ELSE IF ~fileExists(l, resolved) THEN AppProjectError
                   ELSE Undefined]

\* inferContext (lines 268-282)
launchInferContext(l, resolvedAppFolder) ==
    LET context == IF l.context # <<>> THEN l.context
                   ELSE IF resolvedAppFolder = WorkspaceFolderPath THEN resolvedAppFolder
                   ELSE dirname(resolvedAppFolder)
        resolved == resolveFilePath(context, WorkspaceFolderPath)
    IN  [resolvedContext |-> resolved, threw |-> ~dirExists(l, resolved)]

\* (mutant) the Dockerfile is not looked for
launchInferDockerfileUnchecked(l, resolvedAppFolder) ==
    LET dockerfile == IF l.dockerfile # <<>> THEN l.dockerfile
                      ELSE Append(resolvedAppFolder, "Dockerfile")
    IN  [dockerfile |-> resolveFilePath(dockerfile, WorkspaceFolderPath), threw |-> FALSE]

\* inferDockerfile (lines 284-296)
launchInferDockerfile(l, resolvedAppFolder) ==
    LET dockerfile == IF l.dockerfile # <<>> THEN l.dockerfile
                      ELSE Append(resolvedAppFolder, "Dockerfile")
        resolved == resolveFilePath(dockerfile, WorkspaceFolderPath)
    IN  [dockerfile |-> resolved, threw |-> ~fileExists(l, resolved)]

\* (mutant) launchSettings.json is inspected whatever the configuration says
launchInferSslAlwaysInferred(l) ==
    [value |-> inferSsl(l),
     calls |-> <<"fileExists(launchSettings)">>
               \o (IF l.launchSettings.exists THEN <<"readJson(launchSettings)">> ELSE <<>>)]

\* inferSsl (lines 298-323): the value returned and the file calls made
launchInferSsl(l) ==
    IF l.configureAspNetCoreSsl # Undefined
    THEN [value |-> l.configureAspNetCoreSsl, calls |-> <<>>]
    ELSE [value |-> inferSsl(l),
          calls |-> <<"fileExists(launchSettings)">>
                    \o (IF l.launchSettings.exists THEN <<"readJson(launchSettings)">> ELSE <<>>)]

\* inferUserSecrets (lines 325-334): true with SSL; else the regular
\* expression tested on the project file when it exists; else undefined
launchInferUserSecrets(l, ssl, projectFile) ==
    IF ssl = "true" THEN [value |-> "true", calls |-> <<>>]
    ELSE IF fileExists(l, projectFile)
    THEN [value |-> IF inferUserSecrets(l) THEN "true" ELSE "false",
          calls |-> <<"fileExists(appProject)", "readFile(appProject)">>]
    ELSE [value |-> Undefined, calls |-> <<"fileExists(appProject)">>]

\* inferRunOptions (lines 158-189): debugConfiguration.dockerRun.env after it
launchInferEnv(env, ssl, userSecrets) ==
    IF ssl = "true" \/ userSecrets = "true"
    THEN LET env0 == IF env.defined THEN env ELSE EmptyEnv
             env1 == [env0 EXCEPT !.ASPNETCORE_ENVIRONMENT = Or(@, "Development")]
         IN  IF ssl = "true"
             THEN [env1 EXCEPT !.ASPNETCORE_URLS = Or(@, "http://+:80;https://+:443")]
             ELSE env1
    ELSE env

\* (mutant) the verdict of the prerequisite is not looked at
launchStepsIgnoringPrerequisite(l) ==
    IF ~l.prepareForLaunchSucceeds
    THEN [status |-> "threw", error |-> "prepareForLaunch",
          calls |-> <<"checkPrerequisite", "prepareForLaunch">>]
    ELSE [status |-> "resolved", error |-> Undefined,
          calls |-> <<"checkPrerequisite", "prepareForLaunch", "startListening">>]

\* lines 115-127: checkPrerequisite, and undefined returned when it is not
\* satisfied; prepareForLaunch awaited, whose rejection ends the resolution;
\* createConfiguration; startListening; the configuration returned
launchSteps(l) ==
    IF ~l.prerequisiteSatisfied
    THEN [status |-> "undefined", error |-> Undefined, calls |-> <<"checkPrerequisite">>]
    ELSE IF ~l.prepareForLaunchSucceeds
    THEN [status |-> "threw", error |-> "prepareForLaunch",
          calls |-> <<"checkPrerequisite", "prepareForLaunch">>]
    ELSE [status |-> "resolved", error |-> Undefined,
          calls |-> <<"checkPrerequisite", "prepareForLaunch", "startListening">>]

\* resolveDockerDebugConfiguration (lines 85-128): how it ends, the calls it
\* makes on its providers in call order, the paths it resolves, and
\* dockerRun.env as it leaves it
resolveDockerDebugConfiguration(l) ==
    LET folders == launchInferAppFolder(l)
        project == launchInferAppProject(l, folders.resolvedAppFolder)
        ssl == launchInferSsl(l)
        secrets == launchInferUserSecrets(l, ssl.value, project.resolvedAppProject)
        context == launchInferContext(l, folders.resolvedAppFolder)
        dockerfile == launchInferDockerfile(l, folders.resolvedAppFolder)
        env == launchInferEnv(l.env, ssl.value, secrets.value)
        c1 == <<"dirExists(appFolder)">>
        c2 == c1 \o (IF project.scanned THEN <<"readDir(appFolder)">> ELSE <<>>)
        c3 == c2 \o (IF project.checked THEN <<"fileExists(appProject)">> ELSE <<>>)
        c4 == c3 \o <<"getTargetPath">> \o ssl.calls \o secrets.calls \o <<"dirExists(context)">>
        c5 == c4 \o <<"fileExists(dockerfile)">>
        steps == launchSteps(l)
        r2 == [NoLaunchResult EXCEPT !.appFolder = folders.resolvedAppFolder]
        r3 == [r2 EXCEPT !.appProject = project.resolvedAppProject]
        r4 == [r3 EXCEPT !.ssl = ssl.value, !.userSecrets = secrets.value,
                         !.context = context.resolvedContext]
        r5 == [r4 EXCEPT !.dockerfile = dockerfile.dockerfile]
        r6 == [r5 EXCEPT !.env = env]
        threw(r, calls, message) ==
            [r EXCEPT !.status = "threw", !.error = message, !.calls = calls]
    IN  IF ~l.folder THEN threw(NoLaunchResult, <<>>, NoFolderError)
        ELSE IF folders.threw THEN threw(r2, c1, AppFolderError)
        ELSE IF project.error # Undefined THEN threw(r3, c3, project.error)
        ELSE IF ssl.value = "threw" THEN threw(r3, c3 \o <<"getTargetPath">> \o ssl.calls, "inferSsl")
        ELSE IF context.threw THEN threw(r4, c4, ContextError)
        ELSE IF dockerfile.threw THEN threw(r5, c5, DockerfileError)
        ELSE [r6 EXCEPT !.status = steps.status, !.error = steps.error,
                        !.calls = c5 \o steps.calls]

\* the debug configurations and workspaces the resolver is exercised with
LaunchListings ==
    { [d \in LaunchDirs |->
          CASE d = <<"/ws">> -> root
            [] d = <<"/ws", "web">> -> web
            [] d = <<"/ws", "api">> -> <<"Api.fsproj">>
            [] OTHER -> <<>>] :
        root \in { <<>>, <<"README.md">>, <<"README.md", "MyApp.csproj", "Dockerfile">> },
        web \in { <<"README.md", "Other.fsproj", "Web App.csproj", "Dockerfile">>,
                  <<"Web App.csproj">>, <<"Dockerfile">> } }

InitLaunch ==
    /\ launch \in
          { [NoLaunchConfiguration EXCEPT
                !.folder = f, !.appFolder = af, !.appProject = ap, !.context = cx,
                !.dockerfile = df, !.dirs = ds, !.listing = ls,
                !.prerequisiteSatisfied = pr[1], !.prepareForLaunchSucceeds = pr[2],
                !.projectContents = <<"Project", "TargetFramework">>] :
              f \in BOOLEAN,
              af \in { <<>>, <<"${workspaceFolder}", "web">>, <<"/ws", "missing">> },
              ap \in { <<>>, <<"${workspaceFolder}", "web", "Web App.csproj">>,
                       <<"/ws", "api", "Api.fsproj">>, <<"/ws", "MyApp.csproj">> },
              cx \in { <<>>, <<"${workspaceFolder}">>, <<"/ws", "missing">> },
              df \in { <<>>, <<"${workspaceFolder}", "web", "Dockerfile">> },
              ds \in { {<<"/ws">>, <<"/ws", "web">>}, {<<"/ws">>, <<"/ws", "web">>, <<"/ws", "api">>} },
              ls \in LaunchListings,
              pr \in { <<TRUE, TRUE>>, <<TRUE, FALSE>>, <<FALSE, TRUE>> } }
    /\ launchResult = NoLaunchResult

\* A debug configuration of an existing project whose SSL and user-secrets
\* settings are to be inferred from any of these files.
InitLaunchInfer ==
    /\ launch \in
          { [NoLaunchConfiguration EXCEPT
                !.folder = TRUE,
                !.appProject = <<"${workspaceFolder}", "web", "Web App.csproj">>,
                !.dirs = {<<"/ws">>, <<"/ws", "web">>},
                !.listing = [d \in LaunchDirs |->
                                IF d = <<"/ws", "web">>
                                THEN <<"Web App.csproj", "Dockerfile">> ELSE <<>>],
                !.configureAspNetCoreSsl = ssl, !.env = env,
                !.launchSettings = ls, !.projectContents = pc] :
              ssl \in {Undefined, "true", "false"},
              env \in {NoEnv, [EmptyEnv EXCEPT !.ASPNETCORE_ENVIRONMENT = "Staging"]},
              ls \in LaunchSettingsChoices,
              pc \in ProjectContentsChoices }
    /\ launchResult = NoLaunchResult

\* DockerNetCoreDebugConfigurationProvider.resolveDebugConfiguration
resolveDebugConfiguration ==
    /\ launchResult.status = "none"
    /\ launchResult' = resolveDockerDebugConfiguration(launch)
    /\ UNCHANGED <<launch, debugVars, runVars, volumeVars, buildVars, pythonVars, extraVars>>

(***************************************************************************)
(* Debugging: DebugHelper (src/unnamed/part_002)                           *)
(***************************************************************************)

\* A debug configuration: its name and what else it holds
DebugConfiguration(name, platform) == [name |-> name, platform |-> platform]

NoConfigAdd ==
    [called |-> FALSE, before |-> <<>>, configuration |-> DebugConfiguration(Undefined, Undefined),
     result |-> FALSE, updated |-> FALSE, calls |-> 0]

\* no addDebugConfiguration call made, no configurations in the launch settings
NoConfigurationAdded ==
    /\ launchConfigurations = [defined |-> FALSE, items |-> <<>>]
    /\ configAdd = NoConfigAdd

\* (mutant) a stored configuration counts only when it is the same configuration
addDebugConfigurationComparingConfigurations(configurations, debugConfiguration) ==
    LET allConfigs == IF configurations.defined THEN configurations.items ELSE <<>>
    IN  IF \E i \in DOMAIN allConfigs : allConfigs[i] = debugConfiguration
        THEN [result |-> FALSE, updated |-> FALSE, configurations |-> configurations]
        ELSE [result |-> TRUE, updated |-> TRUE,
              configurations |-> [defined |-> TRUE, items |-> Append(allConfigs, debugConfiguration)]]

\* addDebugConfiguration (lines 69-81): what it returns, whether it called
\* workspaceLaunch.update, and the configurations stored after it
addDebugConfiguration(configurations, debugConfiguration) ==
    LET allConfigs == IF configurations.defined THEN configurations.items ELSE <<>>
    IN  IF \E i \in DOMAIN allConfigs : allConfigs[i].name = debugConfiguration.name
        THEN [result |-> FALSE, updated |-> FALSE, configurations |-> configurations]
        ELSE [result |-> TRUE, updated |-> TRUE,
              configurations |-> [defined |-> TRUE, items |-> Append(allConfigs, debugConfiguration)]]

\* the configurations addDebugConfiguration is called with
DebugConfigurationInputs ==
    { DebugConfiguration(n, p) :
        n \in {"Docker .NET Core Launch", "Docker Node.js Launch", "Docker Python Launch"},
        p \in {"netCore", "node"} }

\* The launch settings of a workspace: no 'configurations', an empty list, or
\* a list with unique names.
InitConfigurations ==
    /\ launchConfigurations \in
          { [defined |-> FALSE, items |-> <<>>],
            [defined |-> TRUE, items |-> <<>>],
            [defined |-> TRUE, items |-> << DebugConfiguration("Docker .NET Core Launch", "netCore") >>],
            [defined |-> TRUE, items |-> << DebugConfiguration("Docker Node.js Launch", "node"),
                                            DebugConfiguration("Docker .NET Core Launch", "netCore") >>] }
    /\ configAdd = NoConfigAdd

\* one call of addDebugConfiguration
AddDebugConfiguration(debugConfiguration) ==
    /\ configAdd.calls < MaxConfigurationAdds
    /\ LET out == addDebugConfiguration(launchConfigurations, debugConfiguration)
       IN  /\ launchConfigurations' = out.configurations
           /\ configAdd' = [called |-> TRUE,
                            before |-> IF launchConfigurations.defined
                                       THEN launchConfigurations.items ELSE <<>>,
                            configuration |-> debugConfiguration,
                            result |-> out.result, updated |-> out.updated,
                            calls |-> configAdd.calls + 1]
    /\ UNCHANGED <<taskVars, cacheVars, readyVars, treeVars, registryVars>>

\* A DockerServerReadyAction object
ServerReadyAction(containerName, pattern, action, uriFormat, webRoot) ==
    [containerName |-> containerName, pattern |-> pattern, action |-> action,
     uriFormat |-> uriFormat, webRoot |-> webRoot]

\* {}: an object with none of the fields
EmptyServerReadyAction == ServerReadyAction(Undefined, Undefined, Undefined, Undefined, Undefined)

\* A property of the debug configuration that holds an object: not there
\* ("undefined"), null, or an object (whose fields matter for
\* dockerServerReadyAction only)
NoProperty == [kind |-> "undefined", value |-> EmptyServerReadyAction]
NullProperty == [kind |-> "null", value |-> EmptyServerReadyAction]
ObjectProperty(value) == [kind |-> "object", value |-> value]

NoReadyInput ==
    [launchBrowser |-> NoProperty, serverReadyAction |-> NoProperty,
     dockerServerReadyAction |-> NoProperty, defaultDockerSRA |-> EmptyServerReadyAction,
     createIfUserUndefined |-> FALSE]

NoReadyResult == [status |-> "none", action |-> EmptyServerReadyAction]

\* no resolveDockerServerReadyAction call made
NoServerReadyAction ==
    /\ readyInput = NoReadyInput
    /\ readyResult = NoReadyResult

\* (mutant) the default's value is preferred to the user's
resolveDockerServerReadyActionDefaultsFirst(debugConfiguration, defaultDockerSRA, createIfUserUndefined) ==
    LET options == <<debugConfiguration.launchBrowser, debugConfiguration.serverReadyAction,
                     debugConfiguration.dockerServerReadyAction>>
        numBrowserOptions == Cardinality({ i \in 1..3 : options[i].kind # "undefined" })
        providedDockerSRA == IF debugConfiguration.dockerServerReadyAction.kind = "object"
                             THEN debugConfiguration.dockerServerReadyAction.value
                             ELSE EmptyServerReadyAction
    IN  IF numBrowserOptions > 1 THEN [status |-> "threw", action |-> EmptyServerReadyAction]
        ELSE IF numBrowserOptions = 1 /\ debugConfiguration.dockerServerReadyAction.kind # "object"
        THEN [status |-> "undefined", action |-> EmptyServerReadyAction]
        ELSE IF numBrowserOptions = 0 /\ ~createIfUserUndefined
        THEN [status |-> "undefined", action |-> EmptyServerReadyAction]
        ELSE [status |-> "action",
              action |-> ServerReadyAction(
                  Or(defaultDockerSRA.containerName, providedDockerSRA.containerName),
                  Or(defaultDockerSRA.pattern, providedDockerSRA.pattern),
                  Or(defaultDockerSRA.action, providedDockerSRA.action),
                  Or(defaultDockerSRA.uriFormat, providedDockerSRA.uriFormat),
                  Or(defaultDockerSRA.webRoot, providedDockerSRA.webRoot))]

\* resolveDockerServerReadyAction (lines 89-113): the options are counted with
\* `!== undefined`, dockerServerReadyAction is then tested with `!`, and each
\* field is provided || default
resolveDockerServerReadyAction(debugConfiguration, defaultDockerSRA, createIfUserUndefined) ==
    LET options == <<debugConfiguration.launchBrowser, debugConfiguration.serverReadyAction,
                     debugConfiguration.dockerServerReadyAction>>
        numBrowserOptions == Cardinality({ i \in 1..3 : options[i].kind # "undefined" })
        providedDockerSRA == IF debugConfiguration.dockerServerReadyAction.kind = "object"
                             THEN debugConfiguration.dockerServerReadyAction.value
                             ELSE EmptyServerReadyAction
    IN  IF numBrowserOptions > 1 THEN [status |-> "threw", action |-> EmptyServerReadyAction]
        ELSE IF numBrowserOptions = 1 /\ debugConfiguration.dockerServerReadyAction.kind # "object"
        THEN [status |-> "undefined", action |-> EmptyServerReadyAction]
        ELSE IF numBrowserOptions = 0 /\ ~createIfUserUndefined
        THEN [status |-> "undefined", action |-> EmptyServerReadyAction]
        ELSE [status |-> "action",
              action |-> ServerReadyAction(
                  Or(providedDockerSRA.containerName, defaultDockerSRA.containerName),
                  Or(providedDockerSRA.pattern, defaultDockerSRA.pattern),
                  Or(providedDockerSRA.action, defaultDockerSRA.action),
                  Or(providedDockerSRA.uriFormat, defaultDockerSRA.uriFormat),
                  Or(providedDockerSRA.webRoot, defaultDockerSRA.webRoot))]

\* the user's dockerServerReadyAction objects and the helpers' defaults
ServerReadyActionInputs ==
    { ServerReadyAction(c, p, a, u, w) :
        c \in {Undefined, "", "user-container"}, p \in {Undefined, "user-pattern"},
        a \in {Undefined, "debugWithChrome"}, u \in {Undefined, "", "user-uri"},
        w \in {Undefined, "user-root"} }

DefaultServerReadyActions ==
    { ServerReadyAction("default-container", "default-pattern", "openExternally", "default-uri", w) :
        w \in {Undefined, "default-root"} }

\* A resolveDockerServerReadyAction call about to be made.
InitServerReadyAction ==
    /\ readyInput \in
          [launchBrowser : {NoProperty, NullProperty, ObjectProperty(EmptyServerReadyAction)},
           serverReadyAction : {NoProperty, NullProperty, ObjectProperty(EmptyServerReadyAction)},
           dockerServerReadyAction :
               {NoProperty, NullProperty} \cup { ObjectProperty(v) : v \in ServerReadyActionInputs },
           defaultDockerSRA : DefaultServerReadyActions,
           createIfUserUndefined : BOOLEAN]
    /\ readyResult = NoReadyResult

\* the call
ResolveDockerServerReadyAction ==
    /\ readyResult.status = "none"
    /\ readyResult' = resolveDockerServerReadyAction(readyInput, readyInput.defaultDockerSRA,
                                                     readyInput.createIfUserUndefined)
    /\ UNCHANGED <<readyInput, taskVars, cacheVars, configVars, treeVars, registryVars>>

\* ---------------------------------------------------------------------
\* LocalRootTreeItemBase: the root of a local tree view, its refresh
\* polling timers and its item lists
\* ---------------------------------------------------------------------

\* timers setInterval can hand out, and timer callbacks or loads that can be
\* waiting for getSortedItems at the same time
MaxTimers == 2

MaxInFlight == 2

\* An item of the tree: areArraysEqual looks at treeId only
Item(treeId, state) == [treeId |-> treeId, state |-> state]

\* the treeIds, in localeCompare order
TreeIds == <<"container-a", "container-b">>

TreeIdRank(treeId) == CHOOSE i \in 1..Len(TreeIds) : TreeIds[i] = treeId

\* TItem[] | undefined
UndefinedItems == [defined |-> FALSE, items |-> <<>>]

Items(items) == [defined |-> TRUE, items |-> items]

\* items.sort((a, b) => a.treeId.localeCompare(b.treeId))
RECURSIVE insertByTreeId(_, _)
insertByTreeId(item, sorted) ==
    IF sorted = <<>> THEN <<item>>
    ELSE IF TreeIdRank(item.treeId) < TreeIdRank(Head(sorted).treeId) THEN <<item>> \o sorted
    ELSE <<Head(sorted)>> \o insertByTreeId(item, Tail(sorted))

RECURSIVE sortByTreeId(_)
sortByTreeId(items) ==
    IF items = <<>> THEN <<>>
    ELSE insertByTreeId(items[Len(items)], sortByTreeId(SubSeq(items, 1, Len(items) - 1)))

\* what getItems settles with: a rejection, undefined, or a list in the
\* order the daemon gave
GetItemsThrew == [threw |-> TRUE, value |-> UndefinedItems]

GetItemsOutcomes ==
    {GetItemsThrew} \cup
    { [threw |-> FALSE, value |-> v] :
        v \in { UndefinedItems,
                Items(<<Item("container-a", "running")>>),
                Items(<<Item("container-a", "exited")>>),
                Items(<<Item("container-b", "running"), Item("container-a", "running")>>) } }

\* ext.dockerodeInitError
InitErrors == {Undefined, "dockerode init error"}

\* getSortedItems (lines 302-309): throws the init error when there is one,
\* otherwise sorts what getItems gave, [] when it gave undefined
getSortedItems(dockerodeInitError, outcome) ==
    IF dockerodeInitError = Undefined
    THEN IF outcome.threw THEN GetItemsThrew
         ELSE [threw |-> FALSE,
               value |-> Items(sortByTreeId(IF outcome.value.defined THEN outcome.value.items ELSE <<>>))]
    ELSE GetItemsThrew

\* (mutant) without the array1 === array2 test
areArraysEqualWithoutIdentity(array1, array2) ==
    IF array1.defined /\ array2.defined
    THEN IF Len(array1.items) # Len(array2.items) THEN FALSE
         ELSE ~(\E index \in 1..Len(array1.items) :
                   array1.items[index].treeId # array2.items[index].treeId)
    ELSE FALSE

\* areArraysEqual (lines 321-335): _currentItems and _itemsFromPolling are
\* never the same array (the load that moves one into the other clears it),
\* so array1 === array2 holds when both are undefined
areArraysEqual(array1, array2) ==
    IF ~array1.defined /\ ~array2.defined THEN TRUE
    ELSE IF array1.defined /\ array2.defined
    THEN IF Len(array1.items) # Len(array2.items) THEN FALSE
         ELSE ~(\E index \in 1..Len(array1.items) :
                   array1.items[index].treeId # array2.items[index].treeId)
    ELSE FALSE

\* (mutant) the catch block leaves _currentItems alone
loadMoreChildrenImplCatchKeepingItems(items) ==
    [items EXCEPT !.failedToConnect = TRUE]

\* loadMoreChildrenImpl, the try block once the list is there (lines 103-105)
loadMoreChildrenImplTry(items, value) ==
    [currentItems |-> value, itemsFromPolling |-> UndefinedItems, failedToConnect |-> FALSE]

\* loadMoreChildrenImpl, the catch block (lines 107-108)
loadMoreChildrenImplCatch(items) ==
    [items EXCEPT !.currentItems = UndefinedItems, !.failedToConnect = TRUE]

\* the fields after construction
NoTreeItems ==
    [currentItems |-> UndefinedItems, itemsFromPolling |-> UndefinedItems, failedToConnect |-> FALSE]

NoTreeTimers == [active |-> {}, intervalId |-> 0, created |-> 0, lastVisibility |-> "none"]

NoTreePending == [polls |-> 0, loads |-> 0, refresh |-> FALSE]

NoTreeLog == [event |-> "none", loaded |-> FALSE]

\* a tree root just constructed, registerRefreshEvents called
NoTree ==
    /\ treeTimers = NoTreeTimers
    /\ treeItems = NoTreeItems
    /\ treePending = NoTreePending
    /\ treeLog = NoTreeLog

\* onDidChangeVisibility (lines 70-87): a visible view gets a new timer whose
\* handle replaces the one in intervalId; a hidden view clears the timer
\* intervalId names
OnDidChangeVisibility(visible) ==
    /\ IF visible
       THEN /\ treeTimers.created < MaxTimers
            /\ treeTimers' = [active |-> treeTimers.active \cup {treeTimers.created + 1},
                              intervalId |-> treeTimers.created + 1,
                              created |-> treeTimers.created + 1,
                              lastVisibility |-> "visible"]
       ELSE treeTimers' = [treeTimers EXCEPT !.active = @ \ {treeTimers.intervalId},
                                             !.lastVisibility = "hidden"]
    /\ treeLog' = [treeLog EXCEPT !.event = IF visible THEN "visible" ELSE "hidden"]
    /\ UNCHANGED <<treeItems, treePending>>
    /\ UNCHANGED <<taskVars, cacheVars, configVars, readyVars, registryVars>>

\* onDidChangeConfiguration (lines 89-97): refresh when the tree's settings changed
OnDidChangeConfiguration(affectsConfiguration) ==
    /\ treePending' = [treePending EXCEPT !.refresh = @ \/ affectsConfiguration]
    /\ treeLog' = [treeLog EXCEPT !.event = "configuration"]
    /\ UNCHANGED <<treeTimers, treeItems>>
    /\ UNCHANGED <<taskVars, cacheVars, configVars, readyVars, registryVars>>

\* a timer fires: its callback calls hasChanged, which waits for getSortedItems
TimerFires(timer) ==
    /\ timer \in treeTimers.active
    /\ treePending.polls < MaxInFlight
    /\ treePending' = [treePending EXCEPT !.polls = @ + 1]
    /\ treeLog' = [treeLog EXCEPT !.event = "timer"]
    /\ UNCHANGED <<treeTimers, treeItems>>
    /\ UNCHANGED <<taskVars, cacheVars, configVars, readyVars, registryVars>>

\* hasChanged once getSortedItems settled (lines 312-318), and the callback's
\* refresh (lines 80-82)
HasChanged(dockerodeInitError, outcome) ==
    /\ treePending.polls > 0
    /\ LET sorted == getSortedItems(dockerodeInitError, outcome)
           polled == IF sorted.threw THEN UndefinedItems ELSE sorted.value
           changed == ~areArraysEqual(treeItems.currentItems, polled)
       IN  /\ treeItems' = [treeItems EXCEPT !.itemsFromPolling = polled]
           /\ treePending' = [treePending EXCEPT !.polls = @ - 1, !.refresh = @ \/ changed]
           /\ treeLog' = [treeLog EXCEPT !.event = IF changed THEN "refresh" ELSE "no refresh"]
    /\ UNCHANGED treeTimers
    /\ UNCHANGED <<taskVars, cacheVars, configVars, readyVars, registryVars>>

\* loadMoreChildrenImpl is called (line 103): with a polled list the try
\* block runs through, without one the load waits for getSortedItems
LoadMoreChildren ==
    /\ IF treeItems.itemsFromPolling.defined
       THEN /\ treeItems' = loadMoreChildrenImplTry(treeItems, treeItems.itemsFromPolling)
            /\ treePending' = [treePending EXCEPT !.refresh = FALSE]
            /\ treeLog' = [event |-> "loaded from poll", loaded |-> TRUE]
       ELSE /\ treePending.loads < MaxInFlight
            /\ treePending' = [treePending EXCEPT !.loads = @ + 1, !.refresh = FALSE]
            /\ treeLog' = [treeLog EXCEPT !.event = "load"]
            /\ UNCHANGED treeItems
    /\ UNCHANGED treeTimers
    /\ UNCHANGED <<taskVars, cacheVars, configVars, readyVars, registryVars>>

\* loadMoreChildrenImpl once getSortedItems settled (lines 103-111)
LoadSettles(dockerodeInitError, outcome) ==
    /\ treePending.loads > 0
    /\ LET sorted == getSortedItems(dockerodeInitError, outcome)
       IN  /\ treeItems' = IF sorted.threw THEN loadMoreChildrenImplCatch(treeItems)
                           ELSE loadMoreChildrenImplTry(treeItems, sorted.value)
           /\ treeLog' = [event |-> IF sorted.threw THEN "load failed" ELSE "load fetched",
                          loaded |-> TRUE]
    /\ treePending' = [treePending EXCEPT !.loads = @ - 1]
    /\ UNCHANGED treeTimers
    /\ UNCHANGED <<taskVars, cacheVars, configVars, readyVars, registryVars>>


\* ---------------------------------------------------------------------
\* SubscriptionTreeItem: the registries of a subscription, listed page by page
\* ---------------------------------------------------------------------

\* pages the registry listing of a subscription can have
MaxPages == 7

\* _nextLink undefined; a link is the number of the page it leads to
NoLink == 0

\* registryListResult.nextLink of a page: the last page has none
nextLinkOf(page, numPages) == IF page < numPages THEN page + 1 ELSE NoLink

\* (mutant) clearCache does not reset _nextLink
loadMoreChildrenImplKeepingLink(nextLink, clearCache) ==
    [nextLink |-> nextLink, page |-> IF nextLink = NoLink THEN 1 ELSE nextLink]

\* loadMoreChildrenImpl up to the request (lines 29-37): clearCache resets
\* _nextLink; list() asks for the first page, listNext(_nextLink) for the
\* page the link leads to
loadMoreChildrenImpl(nextLink, clearCache) ==
    LET link == IF clearCache THEN NoLink ELSE nextLink
    IN  [nextLink |-> link, page |-> IF link = NoLink THEN 1 ELSE link]

\* hasMoreChildrenImpl (lines 49-51)
hasMoreChildrenImpl(nextLink) == nextLink # NoLink

\* The item: _nextLink, the page being waited for (0: none), and about the
\* pass the last clearCache load began: the pages fetched, the page loaded
\* last (0: none), whether a page was fetched again, and how the last load
\* ended
NoRegistryItem ==
    [numPages |-> 1, nextLink |-> NoLink, pending |-> 0, clearCache |-> FALSE,
     fetched |-> {}, loaded |-> 0, again |-> FALSE, outcome |-> "none"]

\* no subscription expanded
NoRegistry == registry = NoRegistryItem

\* A subscription whose listing has some number of pages, not expanded yet.
InitRegistry ==
    \E numPages \in 1..MaxPages : registry = [NoRegistryItem EXCEPT !.numPages = numPages]

\* The tree asks for children (lines 29-37). It waits for a load to finish
\* before it starts the next one, and asks with clearCache false only through
\* its "Load more" entry, there while hasMoreChildrenImpl holds.
LoadMoreRegistries(clearCache) ==
    /\ registry.pending = 0
    /\ clearCache \/ hasMoreChildrenImpl(registry.nextLink)
    /\ LET request == loadMoreChildrenImpl(registry.nextLink, clearCache)
       IN  registry' = [registry EXCEPT !.nextLink = request.nextLink,
                                        !.pending = request.page,
                                        !.clearCache = clearCache,
                                        !.fetched = IF clearCache THEN {} ELSE @,
                                        !.loaded = IF clearCache THEN 0 ELSE @,
                                        !.again = ~clearCache /\ @]
    /\ UNCHANGED <<taskVars, cacheVars, configVars, readyVars, treeVars>>

\* The request settles (line 39): a page sets _nextLink to its link, a
\* rejection leaves loadMoreChildrenImpl before the assignment
RegistriesListed(succeeded) ==
    /\ registry.pending # 0
    /\ registry' = IF succeeded
                   THEN [registry EXCEPT !.nextLink = nextLinkOf(registry.pending, registry.numPages),
                                         !.loaded = registry.pending,
                                         !.fetched = @ \cup {registry.pending},
                                         !.again = @ \/ registry.pending \in registry.fetched,
                                         !.pending = 0,
                                         !.outcome = "listed"]
                   ELSE [registry EXCEPT !.pending = 0, !.outcome = "rejected"]
    /\ UNCHANGED <<taskVars, cacheVars, configVars, readyVars, treeVars>>


\* netCore.appProject of the tasks resolved through the cache: unset (the
\* project picked in the workspace, the web project), the web project, the
\* api project
CacheProjectInputs == { <<>>, <<"${workspaceFolder}", "web", "Web App.csproj">>, ApiProject }

\* NetCoreTaskHelper.resolveDockerBuildOptions on a build task of its own
BuildTaskResolved(appProject, tag) ==
    /\ Len(taskLog) < MaxTaskResolutions
    /\ LET out == resolveDockerBuildOptions(WorkspaceFolderPath,
                       [EmptyBuildOptions EXCEPT !.tag = tag],
                       [defined |-> TRUE, appProject |-> appProject, configureSsl |-> Undefined],
                       workspace, taskCache)
       IN  /\ taskCache' = out.cache
           /\ taskLog' = Append(taskLog, [kind |-> "build", appProject |-> out.helperOptions.appProject,
                                          given |-> tag, resolved |-> out.buildOptions.tag])
    /\ UNCHANGED <<runOptions, helperOptions, workspace, runPrev, runCalls, runStatus, runReads>>
    /\ UNCHANGED <<debugVars, volumeVars, buildVars, pythonVars, launchVars>>
    /\ UNCHANGED <<configVars, readyVars, treeVars, registryVars>>

\* NetCoreTaskHelper.resolveDockerRunOptions on a run task of its own
RunTaskResolved(appProject, image) ==
    /\ Len(taskLog) < MaxTaskResolutions
    /\ LET out == resolveDockerRunOptions(WorkspaceFolderPath,
                       [NoRunOptions EXCEPT !.image = image],
                       [appProject |-> appProject, configureSsl |-> Undefined],
                       workspace, taskCache)
       IN  /\ out.returned
           /\ taskCache' = out.cache
           /\ taskLog' = Append(taskLog, [kind |-> "run", appProject |-> out.helperOptions.appProject,
                                          given |-> image, resolved |-> out.runOptions.image])
    /\ UNCHANGED <<runOptions, helperOptions, workspace, runPrev, runCalls, runStatus, runReads>>
    /\ UNCHANGED <<debugVars, volumeVars, buildVars, pythonVars, launchVars>>
    /\ UNCHANGED <<configVars, readyVars, treeVars, registryVars>>

\* no task resolved through the task cache yet
NoTaskLog == taskLog = <<>>

NoExtra == NoTaskLog /\ NoConfigurationAdded /\ NoServerReadyAction /\ NoTree /\ NoRegistry

\* no build task, Python task or .NET Core launch being resolved
NoResolver == NoBuildTask /\ NoPythonTask /\ NoLaunch /\ NoExtra

\* The state after registerDebugProvider(ctx): nothing resolved yet.
InitDebug ==
    /\ resolutions = <<>>
    /\ listeners = <<>>
    /\ removeCalls = [n \in ContainerNames |-> 0]
    /\ nEvents = 0
    /\ subscriptions = {"debugConfigurationProvider"}
    /\ deactivated = FALSE

Init == InitDebug /\ NoRunTask /\ NoVolumeList /\ NoResolver

\* resolveDebugConfigurationInternal up to its first await of the docker client
resolveDebugConfigurationInternal(platform, cfg) ==
    /\ "debugConfigurationProvider" \in subscriptions
    /\ LET r0 == [platform |-> platform, cfg |-> cfg, at |-> nEvents,
                  helper |-> "none", pc |-> "returned",
                  pre |-> "none", result |-> "undefined"]
       IN  IF getHelper(platform) = "Error"
           THEN /\ resolutions' = Append(resolutions, [r0 EXCEPT !.pc = "threw", !.result = "unsupported platform"])
                /\ UNCHANGED removeCalls
           ELSE IF ~cfg.returned
           THEN /\ resolutions' = Append(resolutions, [r0 EXCEPT !.helper = getHelper(platform)])
                /\ UNCHANGED removeCalls
           ELSE IF ~validateResolvedConfiguration(cfg)
           THEN /\ resolutions' = Append(resolutions,
                        [r0 EXCEPT !.helper = getHelper(platform), !.pc = "threw",
                                   !.result = IF ~Truthy(cfg.type) THEN "No debug type was resolved."
                                              ELSE "No debug request was resolved."])
                /\ UNCHANGED removeCalls
           ELSE IF ~ShouldRemoveContainer(cfg)
           THEN /\ resolutions' = Append(resolutions,
                        [r0 EXCEPT !.helper = getHelper(platform), !.result = "resolved"])
                /\ UNCHANGED removeCalls
           ELSE /\ resolutions' = Append(resolutions,
                        [r0 EXCEPT !.helper = getHelper(platform), !.pc = "awaitPreRemove",
                                   !.pre = "pending", !.result = "pending"])
                /\ removeCalls' = [removeCalls EXCEPT ![cfg.dockerOptions.containerNameToKill] = @ + 1]
    /\ listeners' = Append(listeners, NoListener)
    /\ UNCHANGED <<nEvents, subscriptions, deactivated>>
    /\ UNCHANGED <<runVars, volumeVars, resolverVars>>

\* the awaited removeContainer of line 75 settles
PreRemoveSettles(i, ok) ==
    /\ i \in DOMAIN resolutions
    /\ resolutions[i].pc = "awaitPreRemove"
    /\ listeners' = [listeners EXCEPT ![i] = ListenerAfterPreRemove(resolutions[i], ok)]
    /\ resolutions' = [resolutions EXCEPT ![i] = ResolutionAfterPreRemove(@, ok)]
    /\ UNCHANGED <<removeCalls, nEvents, subscriptions, deactivated>>
    /\ UNCHANGED <<runVars, volumeVars, resolverVars>>

\* the host fires onDidTerminateDebugSession: every registered listener runs up
\* to its await
onDidTerminateDebugSession(session) ==
    /\ nEvents' = nEvents + 1
    /\ listeners' = [l \in DOMAIN listeners |-> ListenerOnEvent(listeners[l], session)]
    /\ removeCalls' = [n \in ContainerNames |->
            removeCalls[n] + Cardinality({l \in DOMAIN listeners :
                listeners[l].name = n /\ listeners'[l].invoked > listeners[l].invoked})]
    /\ UNCHANGED <<resolutions, subscriptions, deactivated>>
    /\ UNCHANGED <<runVars, volumeVars, resolverVars>>

\* the removeContainer awaited at line 86 settles for one invocation of a listener
RemovalSettles(l, ok) ==
    /\ l \in DOMAIN listeners
    /\ listeners[l].pending > 0
    /\ listeners' = [listeners EXCEPT ![l] = ListenerAfterRemoval(@, ok)]
    /\ UNCHANGED <<resolutions, removeCalls, nEvents, subscriptions, deactivated>>
    /\ UNCHANGED <<runVars, volumeVars, resolverVars>>

\* the host unloads the extension: it disposes what registerDebugProvider
\* pushed to ctx.subscriptions
deactivate ==
    /\ ~deactivated
    /\ deactivated' = TRUE
    /\ subscriptions' = {}
    /\ UNCHANGED <<resolutions, listeners, removeCalls, nEvents>>
    /\ UNCHANGED <<runVars, volumeVars, resolverVars>>

\* The provider exercised with every kind of helper result and platform.
Next ==
    \/ \E in \in ResolveInputs :
          Len(resolutions) < MaxResolve /\ resolveDebugConfigurationInternal(in[1], in[2])
    \/ \E i \in DOMAIN resolutions, ok \in BOOLEAN : PreRemoveSettles(i, ok)
    \/ \E s \in SessionConfigurations :
          nEvents < MaxEvents /\ onDidTerminateDebugSession(s)
    \/ \E l \in DOMAIN listeners, ok \in BOOLEAN : RemovalSettles(l, ok)
    \/ deactivate

Spec == Init /\ [][Next]_vars

\* Several resolutions that arm the cleanup, for the same or for different
\* containers.
NextLifecycle ==
    \/ \E in \in CleanupInputs :
          Len(resolutions) < MaxResolveLifecycle /\ resolveDebugConfigurationInternal(in[1], in[2])
    \/ \E i \in DOMAIN resolutions, ok \in BOOLEAN : PreRemoveSettles(i, ok)
    \/ \E s \in SessionConfigurations :
          nEvents < MaxEventsLifecycle /\ onDidTerminateDebugSession(s)
    \/ \E l \in DOMAIN listeners, ok \in BOOLEAN : RemovalSettles(l, ok)
    \/ deactivate

SpecLifecycle == Init /\ [][NextLifecycle]_vars

\* The .NET Core run-option resolver applied repeatedly to one task record.
RunInit == InitRun /\ InitDebug /\ NoVolumeList /\ NoResolver

NextRun == NetCoreResolveDockerRunOptions

SpecRun == RunInit /\ [][NextRun]_vars

\* The same resolver applied to run tasks with user-mapped volumes.
RunVolumesInit == InitRunVolumes /\ InitDebug /\ NoVolumeList /\ NoResolver

SpecRunVolumes == RunVolumesInit /\ [][NextRun]_vars

\* The Python run-option resolver applied to a task record.
PythonInit ==
    InitPython /\ InitDebug /\ NoRunTask /\ NoVolumeList /\ NoBuildTask /\ NoLaunch /\ NoExtra

NextPython == PythonResolveDockerRunOptions

SpecPython == PythonInit /\ [][NextPython]_vars

\* resolveCommandLine applied to build option records.
CommandLineInit ==
    InitCommandLine /\ InitDebug /\ NoRunTask /\ NoVolumeList /\ NoPythonTask /\ NoLaunch /\ NoExtra

NextCommandLine == ResolveCommandLine

SpecCommandLine == CommandLineInit /\ [][NextCommandLine]_vars

\* The build-task provider and the .NET Core build-option resolvers applied
\* to docker-build tasks.
BuildInit == InitBuild /\ InitDebug /\ NoVolumeList /\ NoPythonTask /\ NoLaunch /\ NoExtra

NextBuild == resolveTask \/ NetCoreResolveDockerBuildOptions

SpecBuild == BuildInit /\ [][NextBuild]_vars

\* The .NET Core debug configuration resolver applied to configurations.
LaunchInit ==
    InitLaunch /\ InitDebug /\ NoRunTask /\ NoVolumeList /\ NoBuildTask /\ NoPythonTask /\ NoExtra

NextLaunch == resolveDebugConfiguration

SpecLaunch == LaunchInit /\ [][NextLaunch]_vars

\* SSL and user secrets inferred by the .NET Core run task helper and by
\* the .NET Core debug configuration resolver.
InferInit ==
    /\ \/ InitRunInfer /\ NoLaunch
       \/ NoRunTask /\ InitLaunchInfer
    /\ InitDebug /\ NoVolumeList /\ NoBuildTask /\ NoPythonTask /\ NoExtra

NextInfer == NetCoreResolveDockerRunOptions \/ resolveDebugConfiguration

SpecInfer == InferInit /\ [][NextInfer]_vars

\* netCore build and run tasks of the workspace resolved one after the other,
\* each a task of its own, all through the one task cache.
CacheInit == InitDebug /\ NoRunTask /\ NoVolumeList /\ NoResolver

NextCache ==
    \/ \E ap \in CacheProjectInputs, tag \in {Undefined, "custom:1"} : BuildTaskResolved(ap, tag)
    \/ \E ap \in CacheProjectInputs, image \in {Undefined, "mine:2"} : RunTaskResolved(ap, image)

SpecCache == CacheInit /\ [][NextCache]_vars

\* Debug configurations added to the workspace's launch settings.
ConfigurationsInit ==
    /\ InitConfigurations
    /\ InitDebug /\ NoRunTask /\ NoVolumeList /\ NoBuildTask /\ NoPythonTask /\ NoLaunch
    /\ NoTaskLog /\ NoServerReadyAction /\ NoTree /\ NoRegistry

NextConfigurations == \E c \in DebugConfigurationInputs : AddDebugConfiguration(c)

SpecConfigurations == ConfigurationsInit /\ [][NextConfigurations]_vars

\* resolveDockerServerReadyAction applied to debug configurations.
ServerReadyActionInit ==
    /\ InitServerReadyAction
    /\ InitDebug /\ NoRunTask /\ NoVolumeList /\ NoBuildTask /\ NoPythonTask /\ NoLaunch
    /\ NoTaskLog /\ NoConfigurationAdded /\ NoTree /\ NoRegistry

NextServerReadyAction == ResolveDockerServerReadyAction

SpecServerReadyAction == ServerReadyActionInit /\ [][NextServerReadyAction]_vars

\* A tree root with its visibility events, timers, polls and loads.
TreeInit ==
    /\ NoTree
    /\ InitDebug /\ NoRunTask /\ NoVolumeList /\ NoBuildTask /\ NoPythonTask /\ NoLaunch
    /\ NoTaskLog /\ NoConfigurationAdded /\ NoServerReadyAction /\ NoRegistry

NextTree ==
    \/ \E visible \in BOOLEAN : OnDidChangeVisibility(visible)
    \/ \E affectsConfiguration \in BOOLEAN : OnDidChangeConfiguration(affectsConfiguration)
    \/ \E timer \in 1..MaxTimers : TimerFires(timer)
    \/ \E dockerodeInitError \in InitErrors, outcome \in GetItemsOutcomes :
          HasChanged(dockerodeInitError, outcome)
    \/ LoadMoreChildren
    \/ \E dockerodeInitError \in InitErrors, outcome \in GetItemsOutcomes :
          LoadSettles(dockerodeInitError, outcome)

SpecTree == TreeInit /\ [][NextTree]_vars

\* The registries of a subscription loaded page by page.
RegistryInit ==
    /\ InitRegistry
    /\ InitDebug /\ NoRunTask /\ NoVolumeList /\ NoBuildTask /\ NoPythonTask /\ NoLaunch
    /\ NoTaskLog /\ NoConfigurationAdded /\ NoServerReadyAction /\ NoTree

NextRegistry ==
    \/ \E clearCache \in BOOLEAN : LoadMoreRegistries(clearCache)
    \/ \E succeeded \in BOOLEAN : RegistriesListed(succeeded)

SpecRegistry == RegistryInit /\ [][NextRegistry]_vars

\* A volume list built by successive addVolumeWithoutConflicts calls.
VolumesInit == NoVolumeList /\ InitDebug /\ NoRunTask /\ NoResolver

NextVolumes == \E v \in VolumeInputs : AddVolume(v)

SpecVolumes == VolumesInit /\ [][NextVolumes]_vars

(***************************************************************************)
(* Properties: post-debug container cleanup                                *)
(***************************************************************************)

\* The session names the container `name` (as the claims put it).
SessionNames(session, name) == session.present /\ session.containerNameToKill = name

\* C1: the termination of a session that names another container, or carries
\* no dockerOptions, makes no listener registered for container n call
\* removeContainer and leaves every such listener as it was (still registered).
NonMatchingTerminationKeepsListener ==
    [][\A s \in SessionConfigurations :
          onDidTerminateDebugSession(s) =>
            \A n \in ContainerNames :
              ~SessionNames(s, n) =>
                /\ removeCalls'[n] = removeCalls[n]
                /\ \A i \in DOMAIN listeners :
                      (listeners[i].registered /\ listeners[i].name = n) =>
                        /\ listeners'[i].active = listeners[i].active
                        /\ listeners'[i].invoked = listeners[i].invoked
                        /\ listeners'[i].pending = listeners[i].pending]_vars

\* C1 witness: a listener for c1 was called with two terminations, none of
\* them its own, and is still registered without having removed anything.
NonMatchingTerminationWitness ==
    \E i \in DOMAIN listeners :
        /\ listeners[i].name = "c1" /\ listeners[i].active
        /\ listeners[i].seen >= 2 /\ listeners[i].invoked = 0

\* C2: whatever the order of terminations and of the settling of a pending
\* removal, one registered listener invokes the forced removal of its
\* container once (on the first termination naming it) and never again.
RemovesExactlyOnce ==
    \A i \in DOMAIN listeners :
        listeners[i].registered => listeners[i].invoked <= 1

\* C3: once an invocation of the listener for a matching session has run to
\* its end (the removal resolved or threw), the listener is deregistered.
ListenerDisposedAfterFiring ==
    \A i \in DOMAIN listeners :
        listeners[i].invoked > listeners[i].pending =>
            /\ ~listeners[i].active
            /\ listeners[i].outcomes # {}

\* C3 witness: a listener whose removal threw, deregistered.
ListenerDisposedAfterThrowWitness ==
    \E i \in DOMAIN listeners :
        /\ listeners[i].outcomes = {"threw"}
        /\ listeners[i].pending = 0
        /\ ~listeners[i].active

\* C4: after the host disposed the extension's subscriptions no cleanup
\* listener is registered any more.
NoListenerAfterDeactivate ==
    deactivated => \A i \in DOMAIN listeners : ~listeners[i].active

\* C5: at most one cleanup listener is registered per container name.
AtMostOneListenerPerName ==
    \A i, j \in DOMAIN listeners :
        (i # j /\ listeners[i].active /\ listeners[j].active) =>
            listeners[i].name # listeners[j].name

\* The claims' condition for arming the cleanup.
CleanupRequested(cfg) ==
    /\ cfg.dockerOptions.present
    /\ cfg.dockerOptions.containerNameToKill \notin {Undefined, ""}
    /\ cfg.dockerOptions.removeContainerAfterDebug \in {Undefined, "true"}

\* C6: the listener is registered only after the removal of a pre-existing
\* container was attempted and has settled; whether that removal succeeded or
\* threw, the listener is registered and the resolution returns the resolved
\* configuration.
PreRemovalThenListener ==
    \A i \in DOMAIN resolutions :
        /\ listeners[i].registered => resolutions[i].pre \in {"removed", "threw"}
        /\ resolutions[i].pre = "pending" =>
              /\ ~listeners[i].registered
              /\ removeCalls[resolutions[i].cfg.dockerOptions.containerNameToKill] >= 1
        /\ resolutions[i].pre \in {"removed", "threw"} =>
              /\ listeners[i].registered
              /\ listeners[i].name = resolutions[i].cfg.dockerOptions.containerNameToKill
              /\ resolutions[i].pc = "returned"
              /\ resolutions[i].result = "resolved"

\* C6 witness: the pre-removal threw, the listener is registered and the
\* resolution returned the configuration.
PreRemovalThrewWitness ==
    \E i \in DOMAIN resolutions :
        /\ resolutions[i].pre = "threw"
        /\ listeners[i].active
        /\ resolutions[i].result = "resolved"

\* C7: for a resolved and validated configuration the cleanup is armed (the
\* pre-removal attempted, then the listener registered) if and only if it has
\* dockerOptions with a non-empty containerNameToKill and
\* removeContainerAfterDebug undefined or true; otherwise nothing is removed
\* and nothing registered, also by later terminations.
CleanupArmedIff ==
    /\ \A i \in DOMAIN resolutions :
          resolutions[i].result \in {"pending", "resolved"} =>
            /\ (resolutions[i].pre # "none") <=> CleanupRequested(resolutions[i].cfg)
            /\ (resolutions[i].pc = "returned" /\ CleanupRequested(resolutions[i].cfg))
                  => listeners[i].registered
            /\ ~CleanupRequested(resolutions[i].cfg) => listeners[i] = NoListener
    /\ \A n \in ContainerNames :
          removeCalls[n] > 0 =>
            \E i \in DOMAIN resolutions :
                /\ CleanupRequested(resolutions[i].cfg)
                /\ resolutions[i].cfg.dockerOptions.containerNameToKill = n

\* C7 witness: a configuration with removeContainerAfterDebug = false for c1
\* was resolved, sessions terminated afterwards, and nothing was removed.
CleanupOptOutWitness ==
    \E i \in DOMAIN resolutions :
        /\ resolutions[i].result = "resolved"
        /\ resolutions[i].cfg.dockerOptions.containerNameToKill = "c1"
        /\ resolutions[i].cfg.dockerOptions.removeContainerAfterDebug = "false"
        /\ nEvents > resolutions[i].at
        /\ removeCalls["c1"] = 0
        /\ ~listeners[i].registered

(***************************************************************************)
(* Properties: run-option resolution                                       *)
(***************************************************************************)

\* C8: a second resolveDockerRunOptions call on the record a first call
\* produced leaves every field of the record as the first call left it.
RunResolutionIdempotent ==
    (runCalls = 2 /\ runStatus = "returned") => runOptions = runPrev

\* C9: a user-supplied entrypoint and a user-supplied command are returned
\* unchanged; the defaults of the record's OS are applied only to an omitted
\* field.
UserEntrypointAndCommandKept ==
    runCalls = 1 =>
        /\ runOptions.entrypoint =
              IF Truthy(runPrev.entrypoint) THEN runPrev.entrypoint
              ELSE IF runOptions.os = "Windows" THEN "ping" ELSE "tail"
        /\ runOptions.command =
              IF Truthy(runPrev.command) THEN runPrev.command
              ELSE IF runOptions.os = "Windows" THEN "-t localhost" ELSE "-f /dev/null"

\* the container paths mapped by a volume list
ContainerPaths(vols) == { vols[i].containerPath : i \in DOMAIN vols }

\* C10: adding a volume whose container path is already mapped leaves the
\* list as it was and returns false; adding one whose container path is not
\* mapped appends exactly that volume at the end and returns true.
FirstWriteWins ==
    lastAdd.called =>
        IF lastAdd.volume.containerPath \in ContainerPaths(lastAdd.before)
        THEN volumes = lastAdd.before /\ lastAdd.result = FALSE
        ELSE /\ Len(volumes) = Len(lastAdd.before) + 1
             /\ SubSeq(volumes, 1, Len(lastAdd.before)) = lastAdd.before
             /\ volumes[Len(volumes)] = lastAdd.volume
             /\ lastAdd.result = TRUE

\* C10 witness: a volume was offered for a container path that an earlier,
\* different volume already maps, and the list kept the earlier one.
FirstWriteWinsWitness ==
    /\ lastAdd.called
    /\ ~lastAdd.result
    /\ Len(volumes) >= 2
    /\ \E i \in DOMAIN volumes :
          /\ volumes[i].containerPath = lastAdd.volume.containerPath
          /\ volumes[i].localPath # lastAdd.volume.localPath

(***************************************************************************)
(* Properties: inferred volumes and ports                                  *)
(***************************************************************************)

\* the entries of a list that repeat no container path of an earlier entry
FirstMappings(items) ==
    { i \in DOMAIN items :
        \A j \in 1..(i - 1) : items[j].containerPath # items[i].containerPath }

\* the n-th of them, in list order
NthFirstMapping(items, n) ==
    CHOOSE i \in FirstMappings(items) :
        Cardinality({ j \in FirstMappings(items) : j <= i }) = n

\* C11: for every user-supplied volume list the list inferVolumes produces
\* maps no container path twice, starts with the user's volumes in their order
\* (without those that repeat an earlier container path), keeps the user's
\* mapping wherever a default has the same container path, and contains every
\* default of the resolution (app, src, remote_debugger, nuget packages, nuget
\* fallback, and user secrets / certificate when they apply) whose container
\* path the user did not map.
InferredVolumesKeepUserMappings ==
    (runCalls >= 1 /\ runStatus = "returned") =>
        LET user == IF runPrev.volumes.defined THEN runPrev.volumes.items ELSE <<>>
            out == runOptions.volumes.items
            k == Cardinality(FirstMappings(user))
            ssl == sslOutcome(helperOptions, workspace) = "true"
            userSecrets == ssl \/ inferUserSecrets(workspace)
            defaults == defaultVolumes(WorkspaceFolderPath, runOptions, helperOptions.appProject,
                                       workspace, ssl, userSecrets)
        IN  /\ runOptions.volumes.defined
            /\ \A i, j \in DOMAIN out :
                  i # j => out[i].containerPath # out[j].containerPath
            /\ Len(out) >= k
            /\ \A n \in 1..k : out[n] = user[NthFirstMapping(user, n)]
            /\ \A i \in FirstMappings(user), j \in DOMAIN out :
                  out[j].containerPath = user[i].containerPath => out[j] = user[i]
            /\ \A d \in DOMAIN defaults :
                  defaults[d].containerPath \notin ContainerPaths(user) =>
                      \E j \in (k + 1)..Len(out) : out[j] = defaults[d]
            /\ \A c \in (IF runOptions.os = "Windows"
                          THEN {"C:\\app", "C:\\src", "C:\\remote_debugger",
                                "C:\\.nuget\\packages", "C:\\.nuget\\fallbackpackages"}
                          ELSE {"/app", "/src", "/remote_debugger",
                                "/root/.nuget/packages", "/root/.nuget/fallbackpackages"}) :
                  c \in ContainerPaths(out)

\* C11 witness: the user mapped /app twice and the user-secrets folder once;
\* the result starts with the first /app mapping and the user's secrets
\* mapping, and carries the src default after them.
InferredVolumesWitness ==
    /\ runCalls = 1 /\ runStatus = "returned"
    /\ runPrev.volumes.defined /\ Len(runPrev.volumes.items) >= 2
    /\ \E i, j \in DOMAIN runPrev.volumes.items :
          /\ i < j
          /\ runPrev.volumes.items[i].containerPath = "/app"
          /\ runPrev.volumes.items[j].containerPath = "/app"
          /\ runPrev.volumes.items[i] # runPrev.volumes.items[j]
          /\ runOptions.volumes.items[1] = runPrev.volumes.items[i]
    /\ \E n \in DOMAIN runOptions.volumes.items :
          n > 1 /\ runOptions.volumes.items[n].containerPath = "/src"
    /\ "/root/.microsoft/usersecrets" \in ContainerPaths(runOptions.volumes.items)

\* the user's ports that repeat no container port of an earlier one
FirstPortMappings(items) ==
    { i \in DOMAIN items :
        \A j \in 1..(i - 1) : items[j].containerPort # items[i].containerPort }

NthFirstPortMapping(items, n) ==
    CHOOSE i \in FirstPortMappings(items) :
        Cardinality({ j \in FirstPortMappings(items) : j <= i }) = n

IsDebuggerPort(p) == p.containerPort = 5678

IsDebuggerVolume(v) == v.containerPath = "/pydbg"

IsOtherPort(p) == ~IsDebuggerPort(p)

IsOtherVolume(v) == ~IsDebuggerVolume(v)

\* The resolved lists map container port 5678 and container path /pydbg
\* exactly once: by the user's (first) mapping of that key when there is one,
\* otherwise by the debugger default (host port 5678; the launcher folder,
\* read-only).
PythonDebuggerMappedOnce ==
    LET userPorts == pythonPrev.ports.items
        userVolumes == pythonPrev.volumes.items
        ports == pythonRun.ports.items
        vols == pythonRun.volumes.items
    IN  /\ Cardinality({ i \in DOMAIN ports : IsDebuggerPort(ports[i]) }) = 1
        /\ Cardinality({ i \in DOMAIN vols : IsDebuggerVolume(vols[i]) }) = 1
        /\ \A i \in DOMAIN ports : IsDebuggerPort(ports[i]) =>
              IF \E u \in DOMAIN userPorts : IsDebuggerPort(userPorts[u])
              THEN ports[i] = SelectSeq(userPorts, IsDebuggerPort)[1]
              ELSE ports[i] = [containerPort |-> 5678, hostPort |-> 5678]
        /\ \A i \in DOMAIN vols : IsDebuggerVolume(vols[i]) =>
              IF \E u \in DOMAIN userVolumes : IsDebuggerVolume(userVolumes[u])
              THEN vols[i] = SelectSeq(userVolumes, IsDebuggerVolume)[1]
              ELSE vols[i] = [localPath |-> LauncherFolder, containerPath |-> "/pydbg",
                              permissions |-> "ro"]

\* C12 (as stated): ... and all other user ports and volumes are kept, in
\* their order.
PythonKeepsAllOtherUserMappings ==
    pythonRun.resolved =>
        /\ PythonDebuggerMappedOnce
        /\ SelectSeq(pythonRun.ports.items, IsOtherPort)
              = SelectSeq(pythonPrev.ports.items, IsOtherPort)
        /\ SelectSeq(pythonRun.volumes.items, IsOtherVolume)
              = SelectSeq(pythonPrev.volumes.items, IsOtherVolume)

\* C12 (amended): ... and the other user ports and volumes are kept in their
\* order, except those that repeat the container port / container path of an
\* earlier entry of the user's list: the resolved list is the user's list
\* without such repetitions, followed by the debugger default when the user
\* did not map its key.
PythonKeepsFirstUserMappings ==
    pythonRun.resolved =>
        LET userPorts == pythonPrev.ports.items
            userVolumes == pythonPrev.volumes.items
            ports == pythonRun.ports.items
            vols == pythonRun.volumes.items
            kp == Cardinality(FirstPortMappings(userPorts))
            kv == Cardinality(FirstMappings(userVolumes))
        IN  /\ PythonDebuggerMappedOnce
            /\ pythonRun.ports.defined /\ pythonRun.volumes.defined
            /\ \A n \in 1..kp : ports[n] = userPorts[NthFirstPortMapping(userPorts, n)]
            /\ \A n \in 1..kv : vols[n] = userVolumes[NthFirstMapping(userVolumes, n)]
            /\ Len(ports) = kp + (IF \E u \in DOMAIN userPorts : IsDebuggerPort(userPorts[u])
                                  THEN 0 ELSE 1)
            /\ Len(vols) = kv + (IF \E u \in DOMAIN userVolumes : IsDebuggerVolume(userVolumes[u])
                                 THEN 0 ELSE 1)

\* C12 witness: the user mapped port 80 and then port 5678 to a host port of
\* their own, and /pydbg not at all: the resolved ports are the user's two, the
\* resolved volumes end with the debugger default.
PythonUserPortKeptWitness ==
    /\ pythonRun.resolved
    /\ pythonPrev.ports.items = << Port(80, 8080), Port(5678, 15678) >>
    /\ pythonRun.ports.items = << Port(80, 8080), Port(5678, 15678) >>
    /\ pythonPrev.volumes.items = << Volume(<<"/data">>, "/data", "rw") >>
    /\ pythonRun.volumes.items[2] = Volume(LauncherFolder, "/pydbg", "ro")

(***************************************************************************)
(* Properties: docker-build tasks                                          *)
(***************************************************************************)

\* the tokens that follow each occurrence of a flag, in order
FlagValues(cl, flag) ==
    LET at == { i \in 1..(Len(cl) - 1) : cl[i] = flag }
        nth(n) == CHOOSE i \in at : Cardinality({ j \in at : j <= i }) = n
    IN  [n \in 1..Cardinality(at) |-> cl[nth(n) + 1]]

\* the positions of a token
Positions(cl, token) == { i \in DOMAIN cl : cl[i] = token }

\* the `k=v` tokens of a key-value object
KeyValueTokens(values) ==
    IF values.defined
    THEN [i \in DOMAIN values.entries |-> values.entries[i][1] \o "=" \o values.entries[i][2]]
    ELSE <<>>

IsSet(v) == v # Undefined

\* C13: the build command line has --pull iff pull is true, `-f dockerfile`
\* iff dockerfile is set, one `--build-arg k=v` per entry of args, one
\* `--label k=v` per entry of labels, `-t tag` iff tag is set and
\* `--target stage` iff target is set; no flag has an empty value.
FlagIffOptionSet ==
    buildResult.status = "commandLine" =>
        LET o == buildTask.definition.dockerBuild
            cl == buildResult.commandLine
        IN  /\ Cardinality(Positions(cl, "--pull")) = (IF o.pull = "true" THEN 1 ELSE 0)
            /\ FlagValues(cl, "-f") = (IF IsSet(o.dockerfile) THEN <<o.dockerfile>> ELSE <<>>)
            /\ Cardinality(Positions(cl, "-f")) = (IF IsSet(o.dockerfile) THEN 1 ELSE 0)
            /\ FlagValues(cl, "--build-arg") = KeyValueTokens(o.args)
            /\ FlagValues(cl, "--label") = KeyValueTokens(o.labels)
            /\ FlagValues(cl, "-t") = (IF IsSet(o.tag) THEN <<o.tag>> ELSE <<>>)
            /\ Cardinality(Positions(cl, "-t")) = (IF IsSet(o.tag) THEN 1 ELSE 0)
            /\ FlagValues(cl, "--target") = (IF IsSet(o.target) THEN <<o.target>> ELSE <<>>)
            /\ Cardinality(Positions(cl, "--target")) = (IF IsSet(o.target) THEN 1 ELSE 0)
            /\ \A i \in DOMAIN cl : cl[i] \notin {"", Undefined}

\* C13 witness: a record with pull false, no dockerfile, two build args, a
\* tag and no target: the line has neither --pull nor -f nor --target.
FlagOmittedWitness ==
    /\ buildResult.status = "commandLine"
    /\ buildTask.definition.dockerBuild.pull = "false"
    /\ buildTask.definition.dockerBuild.dockerfile = Undefined
    /\ buildTask.definition.dockerBuild.target = Undefined
    /\ Len(buildTask.definition.dockerBuild.args.entries) = 2
    /\ buildTask.definition.dockerBuild.tag = "myapp:1"
    /\ Positions(buildResult.commandLine, "-f") = {}
    /\ Positions(buildResult.commandLine, "--pull") = {}
    /\ Positions(buildResult.commandLine, "--target") = {}
    /\ Cardinality(Positions(buildResult.commandLine, "--build-arg")) = 2

\* the flags of the build command line, in their documented order
BuildFlagOrder == << "--pull", "-f", "--build-arg", "--label", "-t", "--target" >>

\* C14: the line starts with docker build --rm; every --pull comes before
\* every -f, every -f before every --build-arg, then --label, then -t, then
\* --target; the context path, when given, is the last token and follows all
\* flags.
FlagsInFixedOrder ==
    buildResult.status = "commandLine" =>
        LET o == buildTask.definition.dockerBuild
            cl == buildResult.commandLine
        IN  /\ Len(cl) >= 3
            /\ SubSeq(cl, 1, 3) = << "docker", "build", "--rm" >>
            /\ \A a, b \in DOMAIN BuildFlagOrder :
                  a < b =>
                    \A i \in Positions(cl, BuildFlagOrder[a]),
                       j \in Positions(cl, BuildFlagOrder[b]) : 3 < i /\ i < j
            /\ IsSet(o.context) =>
                  /\ cl[Len(cl)] = o.context
                  /\ \A f \in DOMAIN BuildFlagOrder :
                        \A i \in Positions(cl, BuildFlagOrder[f]) : i < Len(cl)

\* C14 witness: every flag is present, two labels among them, and the context
\* is last.
AllFlagsWitness ==
    /\ buildResult.status = "commandLine"
    /\ \A f \in DOMAIN BuildFlagOrder : Positions(buildResult.commandLine, BuildFlagOrder[f]) # {}
    /\ Cardinality(Positions(buildResult.commandLine, "--label")) = 2
    /\ buildResult.commandLine[Len(buildResult.commandLine)] = "."

\* C15: in the workspace folder 'myapp' a netCore build definition whose tag
\* is unset resolves to the tag 'myapp:dev' when it is the debug definition
\* (target 'base') and to another tag when it is the release definition
\* (target 'final'); a tag the user set is never replaced.
DefaultTagFollowsTarget ==
    (buildResult.status = "resolved" /\ buildResult.helpers = <<"netCore">>) =>
        LET original == buildResult.originalDefinition.dockerBuild
            tag == buildTask.definition.dockerBuild.tag
        IN  IF Truthy(original.tag) THEN tag = original.tag
            ELSE /\ Truthy(tag)
                 /\ original.target = "base" => tag = WorkspaceFolderName \o ":dev"
                 /\ original.target = "final" => tag # WorkspaceFolderName \o ":dev"

\* C20: a docker-build resolution runs one path: the netCore helper when the
\* platform is 'netCore' or netCore options are present, otherwise the node
\* helper when the platform is 'node' or node options are present; any other
\* definition raises "Unrecognized platform" and a task without workspace
\* folder scope raises an error, and then no helper is invoked and neither a
\* command line nor a task is produced.
OneResolutionPath ==
    buildResult.by = "resolveTaskInternal" =>
        LET d == buildResult.originalDefinition
            netCore == d.platform = "netCore" \/ d.netCore.defined
            node == d.platform = "node" \/ d.node.defined
            failed == /\ buildResult.status = "threw"
                      /\ buildResult.helpers = <<>>
                      /\ buildResult.commandLine = <<>>
                      /\ ~buildResult.task.produced
            ranOnly(helper) ==
                      /\ buildResult.status = "resolved"
                      /\ buildResult.helpers = <<helper>>
                      /\ buildResult.task.produced
                      /\ buildResult.task.command = "docker"
                      /\ buildResult.commandLine = <<"docker">> \o buildResult.task.args
        IN  IF buildTask.scope = Undefined
            THEN failed /\ buildResult.error # "Unrecognized platform"
                        /\ buildResult.error # Undefined
            ELSE IF netCore THEN ranOnly("netCore")
            ELSE IF node THEN ranOnly("node")
            ELSE failed /\ buildResult.error = "Unrecognized platform"

\* C20 witness: a task of platform 'node' that also carries netCore options
\* was resolved by the netCore helper alone.
NetCoreOptionsWinWitness ==
    /\ buildResult.by = "resolveTaskInternal"
    /\ buildResult.originalDefinition.platform = "node"
    /\ buildResult.originalDefinition.netCore.defined
    /\ buildResult.helpers = <<"netCore">>
    /\ buildResult.task.produced

\* the project file holds the UserSecretsId token in some letter case
HasUserSecretsId(contents) ==
    \E i \in DOMAIN contents : contents[i] \in {"UserSecretsId", "USERSECRETSID", "usersecretsid"}

\* ASPNETCORE_ENVIRONMENT of an env object the user wrote, 'Development' when
\* the user set none
EnvironmentOrDevelopment(env) ==
    IF env.defined /\ env.ASPNETCORE_ENVIRONMENT \notin {Undefined, ""}
    THEN env.ASPNETCORE_ENVIRONMENT ELSE "Development"

\* C16: when the project file contains UserSecretsId in any letter case, or
\* SSL is enabled, user secrets are enabled: the resolved run task has a volume
\* on the container's user-secrets folder and the debug resolver asks for the
\* user secrets to be configured, and ASPNETCORE_ENVIRONMENT is the user's value
\* or 'Development' when the user set none.
UserSecretsEnabledByTokenOrSsl ==
    /\ (/\ runCalls >= 1 /\ runStatus = "returned"
        /\ \/ HasUserSecretsId(workspace.projectContents)
           \/ taskCache[helperOptions.appProject].configureSsl = "true") =>
           /\ (IF runOptions.os = "Windows"
                THEN "C:\\Users\\ContainerUser\\AppData\\Roaming\\Microsoft\\UserSecrets"
                ELSE "/root/.microsoft/usersecrets") \in ContainerPaths(runOptions.volumes.items)
           /\ runOptions.env.defined
           /\ runOptions.env.ASPNETCORE_ENVIRONMENT = EnvironmentOrDevelopment(runPrev.env)
    /\ (/\ launchResult.status \in {"resolved", "undefined"}
        /\ \/ HasUserSecretsId(launch.projectContents)
           \/ launchResult.ssl = "true") =>
           /\ launchResult.userSecrets = "true"
           /\ launchResult.env.defined
           /\ launchResult.env.ASPNETCORE_ENVIRONMENT = EnvironmentOrDevelopment(launch.env)

\* C16 witness: a project file with USERSECRETSID in capitals and no SSL; the
\* run task resolved on it mounts the user-secrets folder and runs in the
\* Development environment.
UpperCaseUserSecretsWitness ==
    /\ runCalls = 1 /\ runStatus = "returned"
    /\ workspace.projectContents = <<"Project", "USERSECRETSID">>
    /\ taskCache[helperOptions.appProject].configureSsl = "false"
    /\ ~runPrev.env.defined /\ ~runPrev.volumes.defined
    /\ "/root/.microsoft/usersecrets" \in ContainerPaths(runOptions.volumes.items)
    /\ runOptions.env.ASPNETCORE_ENVIRONMENT = "Development"

\* launchSettings.json can be read and its Project profile (the first one,
\* with no null profile before it) has an applicationUrl containing https://
HasHttpsProjectProfile(ls) ==
    /\ ls.exists /\ ls.read = "ok" /\ ls.hasProfiles
    /\ \E i \in DOMAIN ls.profiles :
          /\ \A j \in 1..(i - 1) :
                ~ls.profiles[j].isNull /\ ls.profiles[j].commandName # "Project"
          /\ ~ls.profiles[i].isNull /\ ls.profiles[i].commandName = "Project"
          /\ \E u \in DOMAIN ls.profiles[i].applicationUrl :
                ls.profiles[i].applicationUrl[u] \in {"https", "HTTPS", "Https"}

\* C17: inferring SSL never fails a resolution: whatever launchSettings.json
\* is (missing, unreadable, malformed, without a Project profile, without an
\* https URL), a run task whose project file and host folders are there is
\* resolved and a debug configuration fails only on its own missing paths, and
\* the SSL setting is true exactly for an https Project profile; an explicit
\* configureSsl / configureAspNetCoreSsl is the setting as is, and no call on
\* launchSettings.json is made for it.
SslInferenceNeverFails ==
    /\ runCalls >= 1 =>
          LET explicit == helperOptions.configureSsl
              setting == taskCache[helperOptions.appProject].configureSsl
          IN  /\ (/\ workspace.projectFileExists
                  /\ ~(workspace.platform = "win32" /\ workspace.ProgramFiles = <<>>)) =>
                      runStatus = "returned"
              /\ (runStatus = "returned" /\ explicit = Undefined) =>
                      (setting = "true") = HasHttpsProjectProfile(workspace.launchSettings)
              /\ (runStatus = "returned" /\ explicit # Undefined) => setting = explicit
              /\ explicit # Undefined =>
                      \A i \in DOMAIN runReads :
                          runReads[i] \notin {"pathExists(launchSettings)", "readJson(launchSettings)"}
    /\ launchResult.status # "none" =>
          LET explicit == launch.configureAspNetCoreSsl
          IN  /\ launchResult.status = "threw" =>
                      launchResult.error \in {NoFolderError, AppFolderError, NoAppProjectError,
                                              AppProjectError, ContextError, DockerfileError,
                                              "prepareForLaunch"}
              /\ (launchResult.status # "threw" /\ explicit = Undefined) =>
                      (launchResult.ssl = "true") = HasHttpsProjectProfile(launch.launchSettings)
              /\ (launchResult.status # "threw" /\ explicit # Undefined) =>
                      launchResult.ssl = explicit
              /\ explicit # Undefined =>
                      \A i \in DOMAIN launchResult.calls :
                          launchResult.calls[i] \notin {"fileExists(launchSettings)",
                                                        "readJson(launchSettings)"}

\* C17 witness: a malformed launchSettings.json and no configureSsl; the run
\* task is resolved with SSL off.
MalformedLaunchSettingsWitness ==
    /\ runCalls = 1 /\ runStatus = "returned"
    /\ helperOptions.configureSsl = Undefined
    /\ workspace.launchSettings.read = "SyntaxError"
    /\ runReads[2] = "readJson(launchSettings)"
    /\ taskCache[helperOptions.appProject].configureSsl = "false"

\* a path of the debug configuration with ${workspaceFolder} replaced
InWorkspace(path) ==
    IF path # <<>> /\ path[1] = "${workspaceFolder}" THEN <<"/ws">> \o Tail(path) ELSE path

\* the folder a path lies in
FolderOf(path) == SubSeq(path, 1, Len(path) - 1)

\* the calls the resolver made, as a set
LaunchCalls == { launchResult.calls[i] : i \in DOMAIN launchResult.calls }

\* the artifact an error message names, and the configuration properties it
\* tells the user to set
ArtifactNamed(message) ==
    CASE message = NoFolderError -> "workspace folder"
      [] message = AppFolderError -> "application folder"
      [] message \in {NoAppProjectError, AppProjectError} -> "application project file"
      [] message = ContextError -> "context folder"
      [] message = DockerfileError -> "Dockerfile"
      [] OTHER -> "none"

PropertiesNamed(message) ==
    CASE message \in {AppFolderError, NoAppProjectError, AppProjectError} -> {"appFolder", "appProject"}
      [] message = ContextError -> {"context"}
      [] message = DockerfileError -> {"dockerfile"}
      [] OTHER -> {}

\* the artifacts of the configuration that are missing: the workspace folder,
\* or else any of the application folder, the project file (once the
\* application folder is there to look in), the context folder and the Dockerfile
MissingArtifacts ==
    LET appFolder == launchResult.appFolder
        context == IF launch.context # <<>> THEN InWorkspace(launch.context)
                   ELSE IF appFolder = <<"/ws">> THEN appFolder ELSE FolderOf(appFolder)
        dockerfile == IF launch.dockerfile # <<>> THEN InWorkspace(launch.dockerfile)
                      ELSE Append(appFolder, "Dockerfile")
    IN  IF ~launch.folder THEN {"workspace folder"}
        ELSE (IF ~dirExists(launch, appFolder) THEN {"application folder"} ELSE {})
             \cup (IF dirExists(launch, appFolder) /\ ~fileExists(launch, launchResult.appProject)
                   THEN {"application project file"} ELSE {})
             \cup (IF ~dirExists(launch, context) THEN {"context folder"} ELSE {})
             \cup (IF ~fileExists(launch, dockerfile) THEN {"Dockerfile"} ELSE {})

\* C18 (as stated): when the workspace folder is absent, or the application
\* folder, the project file, the context folder or the Dockerfile does not
\* exist, the debug resolver raises an error that names a missing artifact and
\* a property to fix, and makes none of the calls checkPrerequisite,
\* prepareForLaunch and startListening.
MissingArtifactErrorNamesProperty ==
    (launchResult.status # "none" /\ MissingArtifacts # {}) =>
        /\ launchResult.status = "threw"
        /\ ArtifactNamed(launchResult.error) \in MissingArtifacts
        /\ PropertiesNamed(launchResult.error) # {}
        /\ LaunchCalls \cap {"checkPrerequisite", "prepareForLaunch", "startListening"} = {}

\* C18 (amended): the same, except that the error for an absent workspace
\* folder names no property; the errors for the application folder and the
\* project file name appFolder and appProject, the one for the context folder
\* names context and the one for the Dockerfile names dockerfile.
MissingArtifactError ==
    (launchResult.status # "none" /\ MissingArtifacts # {}) =>
        /\ launchResult.status = "threw"
        /\ ArtifactNamed(launchResult.error) \in MissingArtifacts
        /\ PropertiesNamed(launchResult.error) =
              CASE ArtifactNamed(launchResult.error) = "workspace folder" -> {}
                [] ArtifactNamed(launchResult.error) = "context folder" -> {"context"}
                [] ArtifactNamed(launchResult.error) = "Dockerfile" -> {"dockerfile"}
                [] OTHER -> {"appFolder", "appProject"}
        /\ LaunchCalls \cap {"checkPrerequisite", "prepareForLaunch", "startListening"} = {}

\* C18 witness: everything is there but the Dockerfile; the resolver looked
\* for it and raised the Dockerfile error.
MissingDockerfileWitness ==
    /\ launchResult.status = "threw"
    /\ MissingArtifacts = {"Dockerfile"}
    /\ launchResult.error = DockerfileError
    /\ "fileExists(dockerfile)" \in LaunchCalls
    /\ "checkPrerequisite" \notin LaunchCalls

\* the names readDir lists that are project files
IsProjectFileName(name) ==
    name \in {"Web App.csproj", "MyApp.csproj", "Api.fsproj", "Other.fsproj"}

\* C19: the application folder the debug resolver uses is appFolder if set,
\* else the directory of appProject if set, else the workspace folder; the
\* project file is appProject if set, else the first .csproj or .fsproj file
\* listed in the application folder; the folder is listed exactly when
\* appProject is unset, and when it is unset and no such file is listed the
\* 'Unable to infer' error is raised.
ExplicitPropertiesPreferred ==
    (launchResult.status # "none" /\ launch.folder) =>
        LET folder == InWorkspace(IF launch.appFolder # <<>> THEN launch.appFolder
                                  ELSE IF launch.appProject # <<>> THEN FolderOf(launch.appProject)
                                  ELSE <<"/ws">>)
            names == launch.listing[folder]
            projects == { i \in DOMAIN names : IsProjectFileName(names[i]) }
            scanned == "readDir(appFolder)" \in LaunchCalls
        IN  /\ launchResult.appFolder = folder
            /\ folder \notin launch.dirs => ~scanned
            /\ folder \in launch.dirs =>
                  /\ scanned <=> launch.appProject = <<>>
                  /\ launch.appProject # <<>> =>
                        launchResult.appProject = InWorkspace(launch.appProject)
                  /\ (launch.appProject = <<>> /\ projects # {}) =>
                        \E i \in projects :
                            /\ \A j \in projects : i <= j
                            /\ launchResult.appProject = Append(folder, names[i])
                  /\ (launch.appProject = <<>> /\ projects = {}) =>
                        /\ launchResult.status = "threw"
                        /\ launchResult.error = NoAppProjectError

\* C19 witness: appFolder is the web folder and appProject a project file of
\* the workspace folder; the resolver takes both as given and lists no folder.
ExplicitFolderAndProjectWitness ==
    /\ launchResult.status = "resolved"
    /\ launch.appFolder = <<"${workspaceFolder}", "web">>
    /\ launch.appProject = <<"/ws", "MyApp.csproj">>
    /\ launchResult.appFolder = <<"/ws", "web">>
    /\ launchResult.appProject = <<"/ws", "MyApp.csproj">>
    /\ "readDir(appFolder)" \notin LaunchCalls

\* C22: a resolution whose helper returned a configuration without a debug
\* type or without a debug request ends with the validation error, and one
\* whose helper returned undefined returns undefined; in both cases, at every
\* later moment, no pre-existing container was removed for it and no
\* termination listener is registered for it.
CleanupArmedOnlyAfterValidation ==
    \A i \in DOMAIN resolutions :
        LET r == resolutions[i]
            invalid == r.cfg.returned /\ (r.cfg.type \in {Undefined, ""} \/ r.cfg.request \in {Undefined, ""})
        IN  r.platform \in {"netCore", "node", "python"} =>
              /\ invalid =>
                    /\ r.pc = "threw"
                    /\ r.result = IF r.cfg.type \in {Undefined, ""}
                                  THEN "No debug type was resolved."
                                  ELSE "No debug request was resolved."
              /\ ~r.cfg.returned => (r.pc = "returned" /\ r.result = "undefined")
              /\ (invalid \/ ~r.cfg.returned) =>
                    /\ r.pre = "none"
                    /\ ~listeners[i].registered
                    /\ (Len(resolutions) = 1 => \A n \in ContainerNames : removeCalls[n] = 0)

\* C22 witness: the helper returned a configuration without a debug type that
\* asks for the removal of c1; the resolution threw, and two terminations later
\* nothing was removed and nothing is registered.
InvalidConfigurationWitness ==
    /\ Len(resolutions) = 1
    /\ resolutions[1].cfg.returned
    /\ resolutions[1].cfg.type = Undefined
    /\ resolutions[1].cfg.dockerOptions.containerNameToKill = "c1"
    /\ resolutions[1].cfg.dockerOptions.removeContainerAfterDebug = "true"
    /\ resolutions[1].pc = "threw"
    /\ nEvents = 2
    /\ removeCalls["c1"] = 0
    /\ ~listeners[1].registered

\* C23: a resolution for netCore, node or python calls the helper of that
\* platform and no other; one for any other platform ends with the
\* unsupported-platform error, calls no helper, removes no container and
\* registers no listener.
DispatchToPlatformHelper ==
    \A i \in DOMAIN resolutions :
        LET r == resolutions[i]
        IN  /\ r.platform \in {"netCore", "node", "python"} => r.helper = r.platform
            /\ r.platform \notin {"netCore", "node", "python"} =>
                  /\ r.pc = "threw"
                  /\ r.result = "unsupported platform"
                  /\ r.helper = "none"
                  /\ r.pre = "none"
                  /\ ~listeners[i].registered
                  /\ (Len(resolutions) = 1 => \A n \in ContainerNames : removeCalls[n] = 0)

\* C23 witness: a resolution for the platform java, whose configuration would
\* arm the cleanup of c1, threw; a termination later nothing was removed.
UnsupportedPlatformWitness ==
    /\ Len(resolutions) = 1
    /\ resolutions[1].platform = "java"
    /\ resolutions[1].cfg.dockerOptions.containerNameToKill = "c1"
    /\ resolutions[1].pc = "threw"
    /\ nEvents >= 1
    /\ removeCalls["c1"] = 0
    /\ ~listeners[1].registered

\* the position of the first call of that name in the call log (0: not called)
CallPosition(name) ==
    IF name \in LaunchCalls
    THEN CHOOSE i \in DOMAIN launchResult.calls :
            /\ launchResult.calls[i] = name
            /\ \A j \in 1..(i - 1) : launchResult.calls[j] # name
    ELSE 0

\* C30: the prerequisite is checked only when nothing the inference needs is
\* missing, after every call of the inference; with the prerequisite not
\* satisfied the resolver returns undefined and calls neither prepareForLaunch
\* nor startListening; startListening is called only after a prepareForLaunch
\* that succeeded, and the configuration is returned only with startListening
\* as the last call.
LaunchStepsOrdered ==
    launchResult.status # "none" =>
        /\ "checkPrerequisite" \in LaunchCalls =>
              /\ MissingArtifacts = {}
              /\ {"dirExists(appFolder)", "fileExists(appProject)", "getTargetPath",
                  "dirExists(context)", "fileExists(dockerfile)"} \subseteq LaunchCalls
              /\ \A i \in DOMAIN launchResult.calls :
                    launchResult.calls[i] \notin {"checkPrerequisite", "prepareForLaunch", "startListening"}
                        => i < CallPosition("checkPrerequisite")
        /\ MissingArtifacts = {} => "checkPrerequisite" \in LaunchCalls
        /\ ("checkPrerequisite" \in LaunchCalls /\ ~launch.prerequisiteSatisfied) =>
              /\ launchResult.status = "undefined"
              /\ LaunchCalls \cap {"prepareForLaunch", "startListening"} = {}
        /\ "prepareForLaunch" \in LaunchCalls =>
              /\ launch.prerequisiteSatisfied
              /\ CallPosition("checkPrerequisite") < CallPosition("prepareForLaunch")
        /\ "startListening" \in LaunchCalls =>
              /\ launch.prepareForLaunchSucceeds
              /\ CallPosition("prepareForLaunch") > 0
              /\ CallPosition("prepareForLaunch") < CallPosition("startListening")
        /\ launchResult.status = "resolved" =>
              launchResult.calls[Len(launchResult.calls)] = "startListening"
        /\ launchResult.status = "undefined" => ~launch.prerequisiteSatisfied

\* C30 witness: every path is there and the prerequisite is not satisfied;
\* the resolver returned undefined with checkPrerequisite as its last call.
PrerequisiteNotSatisfiedWitness ==
    /\ launchResult.status = "undefined"
    /\ MissingArtifacts = {}
    /\ ~launch.prerequisiteSatisfied
    /\ launchResult.calls[Len(launchResult.calls)] = "checkPrerequisite"
    /\ "prepareForLaunch" \notin LaunchCalls

\* the builds of the project of the i-th resolution that came before it
BuildsBefore(i) ==
    { j \in 1..(i - 1) : taskLog[j].kind = "build" /\ taskLog[j].appProject = taskLog[i].appProject }

\* the image a run task gets when neither the user nor the cache names one
DefaultRunImage(appProject) ==
    IF appProject = <<"/ws", "web", "Web App.csproj">> THEN "webapp:dev" ELSE "api:dev"

StoredNames == { launchConfigurations.items[i].name : i \in DOMAIN launchConfigurations.items }

\* C21: an addDebugConfiguration call with a name that is already stored
\* returns false, writes nothing and leaves the list as it was; any other call
\* returns true and persists the list with the configuration appended. No two
\* stored configurations ever share a name, and a configuration is stored at
\* most once.
ConfigurationNamesUnique ==
    /\ \A i, j \in DOMAIN launchConfigurations.items :
          launchConfigurations.items[i].name = launchConfigurations.items[j].name => i = j
    /\ configAdd.called =>
          IF \E i \in DOMAIN configAdd.before : configAdd.before[i].name = configAdd.configuration.name
          THEN /\ ~configAdd.result /\ ~configAdd.updated
               /\ launchConfigurations.items = configAdd.before
          ELSE /\ configAdd.result /\ configAdd.updated
               /\ launchConfigurations.defined
               /\ launchConfigurations.items = Append(configAdd.before, configAdd.configuration)

\* C21 witness: the node configuration named 'Docker .NET Core Launch' was
\* offered to a list that holds a netCore configuration of that name; the call
\* returned false and wrote nothing.
SameNameRejectedWitness ==
    /\ configAdd.called /\ ~configAdd.result /\ ~configAdd.updated
    /\ configAdd.configuration = [name |-> "Docker .NET Core Launch", platform |-> "node"]
    /\ \E i \in DOMAIN launchConfigurations.items :
          launchConfigurations.items[i] = [name |-> "Docker .NET Core Launch", platform |-> "netCore"]
    /\ launchConfigurations.items = configAdd.before

\* the three browser options of the call, and how many of them are set
BrowserOptions ==
    <<readyInput.launchBrowser, readyInput.serverReadyAction, readyInput.dockerServerReadyAction>>

NumberSet == Cardinality({ i \in 1..3 : BrowserOptions[i].kind # "undefined" })

ServerReadyActionFields == {"containerName", "pattern", "action", "uriFormat", "webRoot"}

AtMostOnePollingTimer ==
    /\ Cardinality(treeTimers.active) <= 1
    /\ treeTimers.lastVisibility = "hidden" => treeTimers.active = {}

\* the lists differ: one of them is undefined and the other is not, or
\* their lengths differ, or the treeIds at some index do
Differs(displayed, polled) ==
    \/ displayed.defined # polled.defined
    \/ /\ displayed.defined /\ polled.defined
       /\ \/ Len(displayed.items) # Len(polled.items)
          \/ \E index \in DOMAIN displayed.items \cap DOMAIN polled.items :
                displayed.items[index].treeId # polled.items[index].treeId

IsSortedByTreeId(list) ==
    \A i, j \in DOMAIN list.items :
        i < j => TreeIdRank(list.items[i].treeId) <= TreeIdRank(list.items[j].treeId)

\* C27: a poll ends in a refresh exactly when the list it polled differs
\* from the displayed one, both sorted by treeId; after a load that failed to
\* connect a poll that fails too does not refresh and a poll that succeeds does.
PollRefreshesOnChange ==
    /\ IsSortedByTreeId(treeItems.currentItems) /\ IsSortedByTreeId(treeItems.itemsFromPolling)
    /\ treeLog.event = "refresh" => Differs(treeItems.currentItems, treeItems.itemsFromPolling)
    /\ treeLog.event = "no refresh" => ~Differs(treeItems.currentItems, treeItems.itemsFromPolling)
    /\ (treeLog.event \in {"refresh", "no refresh"} /\ treeItems.failedToConnect) =>
          (treeLog.event = "refresh" <=> treeItems.itemsFromPolling.defined)

\* C27 witness: the load failed to connect, and a poll that succeeded while
\* another is still waiting ended in a refresh.
PollSucceedsAfterFailedLoadWitness ==
    /\ treeLog.event = "refresh"
    /\ treeItems.failedToConnect /\ ~treeItems.currentItems.defined
    /\ treeItems.itemsFromPolling.defined
    /\ treePending.polls > 0 /\ treePending.refresh

\* C28: a load takes the polled list when there is one, without fetching,
\* and fetches otherwise; a load that succeeded leaves a displayed list, no
\* polled list and the flag false; a load that failed leaves no displayed list
\* and the flag true; once a load has ended the flag is true exactly when the
\* displayed list is undefined.
LoadKeepsStateConsistent ==
    /\ [](treeLog.loaded => (treeItems.failedToConnect <=> ~treeItems.currentItems.defined))
    /\ [](treeLog.event \in {"loaded from poll", "load fetched"} =>
            /\ treeItems.currentItems.defined
            /\ ~treeItems.itemsFromPolling.defined
            /\ ~treeItems.failedToConnect)
    /\ [](treeLog.event = "load failed" =>
            ~treeItems.currentItems.defined /\ treeItems.failedToConnect)
    /\ [][treeLog'.event \in {"loaded from poll", "load"} =>
            IF treeItems.itemsFromPolling.defined
            THEN /\ treeLog'.event = "loaded from poll"
                 /\ treeItems'.currentItems = treeItems.itemsFromPolling
                 /\ treePending'.loads = treePending.loads
            ELSE /\ treeLog'.event = "load"
                 /\ treePending'.loads = treePending.loads + 1
                 /\ treeItems' = treeItems]_vars

\* C28 witness: a load that was fetching failed after a poll had left a list
\* and while another poll is waiting; the list shown before is gone.
LoadFailsBetweenPollsWitness ==
    /\ treeLog.event = "load failed"
    /\ treeItems.failedToConnect /\ ~treeItems.currentItems.defined
    /\ treeItems.itemsFromPolling.defined
    /\ treePending.polls > 0 /\ treePending.loads > 0

\* C29: a load with clearCache asks for the first page; a load without it
\* asks for the page after the one loaded last; hasMoreChildrenImpl holds
\* exactly when the page loaded last in the pass has a next-page link, so not
\* after the final page; no page is fetched twice in a pass.
RegistryPagesInOrder ==
    /\ (registry.pending # 0 /\ registry.clearCache) => registry.pending = 1
    /\ (registry.pending # 0 /\ ~registry.clearCache /\ registry.loaded # 0) =>
          registry.pending = registry.loaded + 1
    /\ hasMoreChildrenImpl(registry.nextLink) <=>
          (registry.loaded # 0 /\ registry.loaded < registry.numPages)
    /\ registry.loaded = registry.numPages => ~hasMoreChildrenImpl(registry.nextLink)
    /\ ~registry.again

\* C29 witness: the three pages of a listing were loaded one after the other
\* and there is nothing more to load.
AllPagesLoadedWitness ==
    /\ registry.numPages = 3 /\ registry.loaded = 3 /\ registry.pending = 0
    /\ registry.fetched = {1, 2, 3}
    /\ ~hasMoreChildrenImpl(registry.nextLink)

====
